---- MODULE Spec2Model ----
(***************************************************************************)
(* The in-memory conversation store (backend/memory_store.py, MemoryStore) *)
(* as a state machine.  Every handler runs under `async with self._lock`   *)
(* and contains no await inside the critical section, so one handler is    *)
(* one atomic action.  Thread objects live in a heap so that aliasing      *)
(* between the caller's objects and the store's objects is expressible;    *)
(* thread items and attachments are modelled by value.  The last sections  *)
(* model callers that overlap at the lock, and one conversation turn of    *)
(* KnowledgeAssistantServer (backend/app/main.py) with its title task.     *)
(***************************************************************************)
EXTENDS Integers, Sequences, FiniteSets, TLC

\* ---------------------------------------------------------------- bounds
\* Largest number of items held by the store, over all threads.
MaxItems == 3
\* Largest page size requested; limits range over -1 .. MaxLimit.
MaxLimit == 2

\* ------------------------------------------------------------ input sets
ThreadIds == {"t1", "t2"}
ThreadOrder == <<"t1", "t2", "t3">>
ItemIds == {"a", "b"}
Payloads == {0, 1}
Orders == {"asc", "desc"}
Limits == (-1) .. MaxLimit

\* Optional[str]: None, or a string.
None == <<>>
Some(x) == <<x>>
\* Python truthiness of an Optional[str]: None and "" are falsy.
Truthy(o) == o # None /\ o[1] # ""

Titles == {None, Some("T")}
\* Creation times, and the one given to a thread whose time plays no part.
CreatedAts == {1, 2}
Epoch == 1
\* A ThreadMetadata value: id, title, created_at and, of its metadata
\* dict, the entry "previous_response_id" (None when the key is absent).
ThreadMetadata(id, title, created_at) ==
    [id |-> id, title |-> title, created_at |-> created_at,
     previous_response_id |-> None]
Items == [id : ItemIds, val : Payloads]
\* Cursors a caller may pass: None, the empty string, or an item id.
Cursors == {None, Some("")} \cup {Some(i) : i \in ItemIds}

AttachmentIds == {"f1", "f2"}
\* An Attachment value: its id and, for the rest of its fields, a payload.
Attachments == [id : AttachmentIds, val : Payloads]

\* No object (a Python None where a ThreadMetadata reference is expected).
Null == 0

VARIABLES
    heap,      \* address -> ThreadMetadata value: the Python objects alive
    threads,   \* self._threads: thread id -> address of the stored object
    items,     \* self._items: thread id -> sequence of items (the deque)
    obj,       \* the caller's reference to a ThreadMetadata object, or Null
    saved,     \* history: thread id -> the value save_thread was given
    client,    \* a client that appends items and then reads them back
    last,      \* the most recent call and what it returned
    thread_keys,  \* the keys of self._threads in the dict's insertion order
    attachments,  \* self._attachments: attachment id -> attachment
    tasks,     \* concurrent callers of the store and the lock they share
    turn,      \* one conversation turn of the server and its title task
    zoho       \* one call of a ticketing tool and what it put on the wire

vars == <<heap, threads, items, obj, saved, client, last, thread_keys,
          attachments, tasks, turn, zoho>>

\* ------------------------------------------------------- sequence helpers
Reverse(s) == [i \in 1 .. Len(s) |-> s[Len(s) + 1 - i]]

Min(a, b) == IF a < b THEN a ELSE b
Max(a, b) == IF a > b THEN a ELSE b

\* Python's s[start:stop] for a list s (0-based, stop exclusive, negative
\* indices counted from the end, both clamped to 0 .. len(s)).
PyIndex(i, n) == IF i < 0 THEN Max(i + n, 0) ELSE Min(i, n)
PySlice(s, start, stop) ==
    LET lo == PyIndex(start, Len(s))
        hi == PyIndex(stop, Len(s))
    IN  IF lo < hi THEN SubSeq(s, lo + 1, hi) ELSE <<>>

\* 1-based position of the first element whose id is `id`, 0 when none:
\* the `for idx, x in enumerate(...): if x.id == id` scans.
FirstIndex(s, id) ==
    IF \E i \in 1 .. Len(s) : s[i].id = id
    THEN CHOOSE i \in 1 .. Len(s) :
            s[i].id = id /\ \A j \in 1 .. (i - 1) : s[j].id # id
    ELSE 0

RemoveAt(s, idx) == SubSeq(s, 1, idx - 1) \o SubSeq(s, idx + 1, Len(s))

Restrict(f, D) == [x \in D |-> f[x]]

RECURSIVE SumLen(_, _)
SumLen(f, D) ==
    IF D = {} THEN 0
    ELSE LET x == CHOOSE y \in D : TRUE
         IN  Len(f[x]) + SumLen(f, D \ {x})
TotalItems == SumLen(items, DOMAIN items)

\* ------------------------------------------------------------------ heap
\* The lowest free address.
Alloc(h) ==
    CHOOSE a \in 1 .. (Cardinality(DOMAIN h) + 1) :
        a \notin DOMAIN h /\ \A b \in 1 .. (a - 1) : b \in DOMAIN h

\* Faulty variant: the same object is handed on, no copy is made.
AliasInsteadOfCopy(h, a) == [heap |-> h, addr |-> a]
\* model.model_copy(deep=True): a new object with the same field values.
_clone(h, a) ==
    LET n == Alloc(h) IN [heap |-> (n :> h[a]) @@ h, addr |-> n]

\* The references that keep objects alive, in a fixed order: the store's
\* records by thread id, then the caller's reference.
Roots(th, o) ==
    LET ts == SelectSeq(ThreadOrder, LAMBDA t : t \in DOMAIN th)
        as == [i \in 1 .. Len(ts) |-> th[ts[i]]]
    IN  IF o = Null THEN as ELSE Append(as, o)
Rank(rs, a) ==
    CHOOSE i \in 1 .. Len(rs) : rs[i] = a /\ \A j \in 1 .. (i - 1) : rs[j] # a
\* Reference counting frees every object no root refers to; addresses are
\* not observable (the code never uses `is` or id()), so the survivors are
\* renamed to their rank among the roots.
Settle(h, th, o) ==
    LET rs == Roots(th, o)
        live == {Rank(rs, rs[i]) : i \in 1 .. Len(rs)}
    IN  [heap |-> [n \in live |-> h[rs[n]]],
         threads |-> [t \in DOMAIN th |-> Rank(rs, th[t])],
         obj |-> IF o = Null THEN Null ELSE Rank(rs, o)]

\* The keys of a dict after an operation left it with the key set D: the
\* keys it had keep their positions, a new key goes to the end.
DictKeys(keys, D) ==
    SelectSeq(keys, LAMBDA k : k \in D)
        \o SelectSeq(ThreadOrder,
                     LAMBDA k : k \in D /\ \A i \in 1 .. Len(keys) : keys[i] # k)

St == [heap |-> heap, threads |-> threads, items |-> items,
       keys |-> thread_keys, attachments |-> attachments]

\* -------------------------------------------------------------- handlers
\* Each returns the store after the call, the status ("ok" or "NotFound",
\* the raised NotFoundError) and the returned value.

\* Faulty variant: the lookup is made in self._items and an empty deque
\* counts as missing.
load_thread_IfItems(S, thread_id) ==
    IF thread_id \notin DOMAIN S.items \/ S.items[thread_id] = <<>>
    THEN [status |-> "NotFound", heap |-> S.heap, threads |-> S.threads,
          items |-> S.items, ret |-> Null]
    ELSE LET c == _clone(S.heap, S.threads[thread_id])
         IN  [status |-> "ok", heap |-> c.heap, threads |-> S.threads,
              items |-> S.items, ret |-> c.addr]
load_thread(S, thread_id) ==
    IF thread_id \notin DOMAIN S.threads
    THEN [status |-> "NotFound", heap |-> S.heap, threads |-> S.threads,
          items |-> S.items, ret |-> Null]
    ELSE LET c == _clone(S.heap, S.threads[thread_id])
         IN  [status |-> "ok", heap |-> c.heap, threads |-> S.threads,
              items |-> S.items, ret |-> c.addr]

\* Faulty variant: the deque is assigned, not setdefault.
save_thread_ResetItems(S, thread) ==
    LET c == _clone(S.heap, thread)
        id == S.heap[thread].id
    IN  [status |-> "ok", heap |-> c.heap,
         threads |-> (id :> c.addr) @@ S.threads,
         items |-> (id :> <<>>) @@ S.items]
\* Faulty variant: no deque is made for a new thread.
save_thread_NoDeque(S, thread) ==
    LET c == _clone(S.heap, thread)
        id == S.heap[thread].id
    IN  [status |-> "ok", heap |-> c.heap,
         threads |-> (id :> c.addr) @@ S.threads,
         items |-> S.items]
save_thread(S, thread) ==
    LET c == _clone(S.heap, thread)
        id == S.heap[thread].id
    IN  [status |-> "ok", heap |-> c.heap,
         threads |-> (id :> c.addr) @@ S.threads,
         items |-> IF id \in DOMAIN S.items THEN S.items
                   ELSE (id :> <<>>) @@ S.items]

\* Faulty variant: the page starts at the cursor's item, not after it.
PageStartAtMatch(its, after, limit, order) ==
    LET ordered == IF order = "asc" THEN its ELSE Reverse(its)
        idx == IF Truthy(after) THEN FirstIndex(ordered, after[1]) ELSE 0
    IN  IF Truthy(after) /\ idx = 0
        THEN [status |-> "NotFound"]
        ELSE LET start == IF Truthy(after) THEN idx - 1 ELSE 0
                 subset == IF limit # 0
                           THEN PySlice(ordered, start, start + limit)
                           ELSE PySlice(ordered, start, Len(ordered))
                 has_more == start + Len(subset) < Len(ordered)
             IN  [status |-> "ok", data |-> subset, has_more |-> has_more,
                  after |-> IF has_more /\ subset # <<>>
                            THEN Some(subset[Len(subset)].id) ELSE None]
\* Faulty variant: an unmatched cursor gives an empty page.
PageEmptyOnMiss(its, after, limit, order) ==
    LET ordered == IF order = "asc" THEN its ELSE Reverse(its)
        idx == IF Truthy(after) THEN FirstIndex(ordered, after[1]) ELSE 0
        start == IF Truthy(after)
                 THEN (IF idx = 0 THEN Len(ordered) ELSE idx) ELSE 0
        subset == IF limit # 0
                  THEN PySlice(ordered, start, start + limit)
                  ELSE PySlice(ordered, start, Len(ordered))
        has_more == start + Len(subset) < Len(ordered)
    IN  [status |-> "ok", data |-> subset, has_more |-> has_more,
         after |-> IF has_more /\ subset # <<>>
                   THEN Some(subset[Len(subset)].id) ELSE None]
\* Faulty variant: has_more is taken to be "the page is full".
PageHasMoreWhenFull(its, after, limit, order) ==
    LET ordered == IF order = "asc" THEN its ELSE Reverse(its)
        idx == IF Truthy(after) THEN FirstIndex(ordered, after[1]) ELSE 0
    IN  IF Truthy(after) /\ idx = 0
        THEN [status |-> "NotFound"]
        ELSE LET start == idx
                 subset == IF limit # 0
                           THEN PySlice(ordered, start, start + limit)
                           ELSE PySlice(ordered, start, Len(ordered))
                 has_more == Len(subset) = limit
             IN  [status |-> "ok", data |-> subset, has_more |-> has_more,
                  after |-> IF has_more /\ subset # <<>>
                            THEN Some(subset[Len(subset)].id) ELSE None]
\* Faulty variant: the slice is taken with the limit whatever its value,
\* so a limit of 0 gives an empty page.
PageZeroIsEmpty(its, after, limit, order) ==
    LET ordered == IF order = "asc" THEN its ELSE Reverse(its)
        idx == IF Truthy(after) THEN FirstIndex(ordered, after[1]) ELSE 0
    IN  IF Truthy(after) /\ idx = 0
        THEN [status |-> "NotFound"]
        ELSE LET start == idx
                 subset == PySlice(ordered, start, start + limit)
                 has_more == start + Len(subset) < Len(ordered)
             IN  [status |-> "ok", data |-> subset, has_more |-> has_more,
                  after |-> IF has_more /\ subset # <<>>
                            THEN Some(subset[Len(subset)].id) ELSE None]
\* The page load_thread_items computes from the deque `its`: ordering,
\* cursor scan, slice, has_more and next_after.
PageOf(its, after, limit, order) ==
    LET ordered == IF order = "asc" THEN its ELSE Reverse(its)
        \* idx is the 1-based position of the match, so `start = idx + 1`
        \* of the 0-based scan is the 1-based position itself.
        idx == IF Truthy(after) THEN FirstIndex(ordered, after[1]) ELSE 0
    IN  IF Truthy(after) /\ idx = 0
        THEN [status |-> "NotFound"]
        ELSE LET start == idx
                 subset == IF limit # 0
                           THEN PySlice(ordered, start, start + limit)
                           ELSE PySlice(ordered, start, Len(ordered))
                 has_more == start + Len(subset) < Len(ordered)
             IN  [status |-> "ok", data |-> subset, has_more |-> has_more,
                  after |-> IF has_more /\ subset # <<>>
                            THEN Some(subset[Len(subset)].id) ELSE None]

load_thread_items(S, thread_id, after, limit, order) ==
    IF thread_id \notin DOMAIN S.items
    THEN [status |-> "NotFound"]
    ELSE PageOf(S.items[thread_id], after, limit, order)

\* list.sort(key=lambda t: t.created_at, reverse=reverse): a stable sort,
\* elements of equal key keep their order with and without reverse.
SortsBefore(a, b, reverse) ==
    IF reverse THEN a.created_at > b.created_at
    ELSE a.created_at < b.created_at
SortInsert(s, x, reverse) ==
    LET k == Cardinality({i \in 1 .. Len(s) : ~SortsBefore(x, s[i], reverse)})
    IN  SubSeq(s, 1, k) \o <<x>> \o SubSeq(s, k + 1, Len(s))
RECURSIVE ListSort(_, _)
ListSort(s, reverse) ==
    IF s = <<>> THEN <<>>
    ELSE SortInsert(ListSort(SubSeq(s, 1, Len(s) - 1), reverse),
                    s[Len(s)], reverse)

\* list(self._threads.values())
ThreadValues(S) == [i \in 1 .. Len(S.keys) |-> S.heap[S.threads[S.keys[i]]]]

\* Faulty variant: the threads are listed in the dict's order, unsorted.
load_threads_Unsorted(S, limit, after, order) ==
    LET listed == IF order = "asc" THEN ThreadValues(S)
                  ELSE Reverse(ThreadValues(S))
        idx == IF Truthy(after) THEN FirstIndex(listed, after[1]) ELSE 0
    IN  IF Truthy(after) /\ idx = 0
        THEN [status |-> "NotFound"]
        ELSE LET start == idx
                 subset == IF limit # 0
                           THEN PySlice(listed, start, start + limit)
                           ELSE PySlice(listed, start, Len(listed))
                 has_more == start + Len(subset) < Len(listed)
             IN  [status |-> "ok", data |-> subset, has_more |-> has_more,
                  after |-> IF has_more /\ subset # <<>>
                            THEN Some(subset[Len(subset)].id) ELSE None]
\* The returned threads are copies, held here by value.
load_threads(S, limit, after, order) ==
    LET sorted == ListSort(ThreadValues(S), order # "asc")
        \* 1-based position of the match: `start = idx + 1` of the scan
        idx == IF Truthy(after) THEN FirstIndex(sorted, after[1]) ELSE 0
    IN  IF Truthy(after) /\ idx = 0
        THEN [status |-> "NotFound"]
        ELSE LET start == idx
                 subset == IF limit # 0
                           THEN PySlice(sorted, start, start + limit)
                           ELSE PySlice(sorted, start, Len(sorted))
                 has_more == start + Len(subset) < Len(sorted)
             IN  [status |-> "ok", data |-> subset, has_more |-> has_more,
                  after |-> IF has_more /\ subset # <<>>
                            THEN Some(subset[Len(subset)].id) ELSE None]

\* Faulty variant: appendleft instead of append.
add_thread_item_AtFront(S, thread_id, item) ==
    IF thread_id \notin DOMAIN S.threads
    THEN [status |-> "NotFound", heap |-> S.heap, threads |-> S.threads,
          items |-> S.items]
    ELSE LET collection == IF thread_id \in DOMAIN S.items
                           THEN S.items[thread_id] ELSE <<>>
         IN  [status |-> "ok", heap |-> S.heap, threads |-> S.threads,
              items |-> (thread_id :> (<<item>> \o collection)) @@ S.items]
\* Faulty variant: the thread record is not looked up.
add_thread_item_NoThreadCheck(S, thread_id, item) ==
    LET collection == IF thread_id \in DOMAIN S.items
                      THEN S.items[thread_id] ELSE <<>>
    IN  [status |-> "ok", heap |-> S.heap, threads |-> S.threads,
         items |-> (thread_id :> Append(collection, item)) @@ S.items]
\* Faulty variant: the deque is made before the thread record is looked up.
add_thread_item_DequeFirst(S, thread_id, item) ==
    LET collection == IF thread_id \in DOMAIN S.items
                      THEN S.items[thread_id] ELSE <<>>
    IN  IF thread_id \notin DOMAIN S.threads
        THEN [status |-> "NotFound", heap |-> S.heap, threads |-> S.threads,
              items |-> (thread_id :> collection) @@ S.items]
        ELSE [status |-> "ok", heap |-> S.heap, threads |-> S.threads,
              items |-> (thread_id :> Append(collection, item)) @@ S.items]
add_thread_item(S, thread_id, item) ==
    IF thread_id \notin DOMAIN S.threads
    THEN [status |-> "NotFound", heap |-> S.heap, threads |-> S.threads,
          items |-> S.items]
    ELSE LET collection == IF thread_id \in DOMAIN S.items
                           THEN S.items[thread_id] ELSE <<>>
         IN  [status |-> "ok", heap |-> S.heap, threads |-> S.threads,
              items |-> (thread_id :> Append(collection, item)) @@ S.items]

\* Faulty variant: an item whose id is absent is appended.
save_item_Upsert(S, thread_id, item) ==
    IF thread_id \notin DOMAIN S.items
    THEN [status |-> "NotFound", heap |-> S.heap, threads |-> S.threads,
          items |-> S.items]
    ELSE LET collection == S.items[thread_id]
             idx == FirstIndex(collection, item.id)
         IN  [status |-> "ok", heap |-> S.heap, threads |-> S.threads,
              items |-> [S.items EXCEPT ![thread_id] =
                            IF idx = 0 THEN Append(collection, item)
                            ELSE [collection EXCEPT ![idx] = item]]]
save_item(S, thread_id, item) ==
    IF thread_id \notin DOMAIN S.items
    THEN [status |-> "NotFound", heap |-> S.heap, threads |-> S.threads,
          items |-> S.items]
    ELSE LET collection == S.items[thread_id]
             idx == FirstIndex(collection, item.id)
         IN  IF idx = 0
             THEN [status |-> "NotFound", heap |-> S.heap,
                   threads |-> S.threads, items |-> S.items]
             ELSE [status |-> "ok", heap |-> S.heap, threads |-> S.threads,
                   items |-> [S.items EXCEPT ![thread_id] =
                                 [collection EXCEPT ![idx] = item]]]

\* Faulty variant: every thread's deque is searched, not only the one of
\* thread_id.
load_item_AnyThread(S, thread_id, item_id) ==
    LET holders == {t \in DOMAIN S.items : FirstIndex(S.items[t], item_id) # 0}
    IN  IF holders = {}
        THEN [status |-> "NotFound", heap |-> S.heap, threads |-> S.threads,
              items |-> S.items, ret |-> None]
        ELSE LET t == IF thread_id \in holders THEN thread_id
                      ELSE CHOOSE u \in holders : TRUE
             IN  [status |-> "ok", heap |-> S.heap, threads |-> S.threads,
                  items |-> S.items,
                  ret |-> Some(S.items[t][FirstIndex(S.items[t], item_id)])]
\* Faulty variant: the last item with the id is returned.
load_item_Last(S, thread_id, item_id) ==
    IF thread_id \notin DOMAIN S.items
    THEN [status |-> "NotFound", heap |-> S.heap, threads |-> S.threads,
          items |-> S.items, ret |-> None]
    ELSE LET collection == S.items[thread_id]
             idx == FirstIndex(Reverse(collection), item_id)
         IN  IF idx = 0
             THEN [status |-> "NotFound", heap |-> S.heap,
                   threads |-> S.threads, items |-> S.items, ret |-> None]
             ELSE [status |-> "ok", heap |-> S.heap, threads |-> S.threads,
                   items |-> S.items,
                   ret |-> Some(collection[Len(collection) + 1 - idx])]
\* The returned item is a copy, held here by value.
load_item(S, thread_id, item_id) ==
    IF thread_id \notin DOMAIN S.items
    THEN [status |-> "NotFound", heap |-> S.heap, threads |-> S.threads,
          items |-> S.items, ret |-> None]
    ELSE LET collection == S.items[thread_id]
             idx == FirstIndex(collection, item_id)
         IN  IF idx = 0
             THEN [status |-> "NotFound", heap |-> S.heap,
                   threads |-> S.threads, items |-> S.items, ret |-> None]
             ELSE [status |-> "ok", heap |-> S.heap, threads |-> S.threads,
                   items |-> S.items, ret |-> Some(collection[idx])]

\* Faulty variant: both collections are cleared.
delete_thread_Clear(S, thread_id) ==
    [status |-> IF thread_id \in DOMAIN S.threads
                   /\ thread_id \in DOMAIN S.items
                THEN "ok" ELSE "NotFound",
     heap |-> S.heap,
     threads |-> Restrict(S.threads, {}),
     items |-> Restrict(S.items, {}),
     removed |-> IF thread_id \in DOMAIN S.items
                 THEN Len(S.items[thread_id]) ELSE 0]
\* Faulty variant: only the thread record is popped.
delete_thread_KeepItems(S, thread_id) ==
    [status |-> IF thread_id \in DOMAIN S.threads
                THEN "ok" ELSE "NotFound",
     heap |-> S.heap,
     threads |-> Restrict(S.threads, DOMAIN S.threads \ {thread_id}),
     items |-> S.items,
     removed |-> IF thread_id \in DOMAIN S.items
                 THEN Len(S.items[thread_id]) ELSE 0]
\* Both pops run before the test, so a record present without its deque
\* (or the reverse) is removed and NotFound is raised all the same.
delete_thread(S, thread_id) ==
    [status |-> IF thread_id \in DOMAIN S.threads
                   /\ thread_id \in DOMAIN S.items
                THEN "ok" ELSE "NotFound",
     heap |-> S.heap,
     threads |-> Restrict(S.threads, DOMAIN S.threads \ {thread_id}),
     items |-> Restrict(S.items, DOMAIN S.items \ {thread_id}),
     \* len(items_removed), 0 when the pop returned None
     removed |-> IF thread_id \in DOMAIN S.items
                 THEN Len(S.items[thread_id]) ELSE 0]

\* Faulty variant: the last item with the id is deleted.
delete_thread_item_Last(S, thread_id, item_id) ==
    IF thread_id \notin DOMAIN S.items
    THEN [status |-> "NotFound", heap |-> S.heap, threads |-> S.threads,
          items |-> S.items]
    ELSE LET collection == S.items[thread_id]
             idx == FirstIndex(Reverse(collection), item_id)
         IN  IF idx = 0
             THEN [status |-> "NotFound", heap |-> S.heap,
                   threads |-> S.threads, items |-> S.items]
             ELSE [status |-> "ok", heap |-> S.heap, threads |-> S.threads,
                   items |-> [S.items EXCEPT ![thread_id] =
                       RemoveAt(collection, Len(collection) + 1 - idx)]]
delete_thread_item(S, thread_id, item_id) ==
    IF thread_id \notin DOMAIN S.items
    THEN [status |-> "NotFound", heap |-> S.heap, threads |-> S.threads,
          items |-> S.items]
    ELSE LET collection == S.items[thread_id]
             idx == FirstIndex(collection, item_id)
         IN  IF idx = 0
             THEN [status |-> "NotFound", heap |-> S.heap,
                   threads |-> S.threads, items |-> S.items]
             ELSE [status |-> "ok", heap |-> S.heap, threads |-> S.threads,
                   items |-> [S.items EXCEPT ![thread_id] =
                                 RemoveAt(collection, idx)]]

\* Attachments are held by value; _clone of a value is the value.
save_attachment(S, attachment) ==
    [status |-> "ok", heap |-> S.heap, threads |-> S.threads,
     items |-> S.items,
     attachments |-> (attachment.id :> attachment) @@ S.attachments]

load_attachment(S, attachment_id) ==
    IF attachment_id \notin DOMAIN S.attachments
    THEN [status |-> "NotFound", heap |-> S.heap, threads |-> S.threads,
          items |-> S.items, attachments |-> S.attachments, ret |-> None]
    ELSE [status |-> "ok", heap |-> S.heap, threads |-> S.threads,
          items |-> S.items, attachments |-> S.attachments,
          ret |-> Some(S.attachments[attachment_id])]

\* Faulty variant: deleting an id that is not stored is not an error.
delete_attachment_Silent(S, attachment_id) ==
    [status |-> "ok", heap |-> S.heap, threads |-> S.threads,
     items |-> S.items,
     attachments |-> Restrict(S.attachments,
                              DOMAIN S.attachments \ {attachment_id})]
delete_attachment(S, attachment_id) ==
    IF attachment_id \in DOMAIN S.attachments
    THEN [status |-> "ok", heap |-> S.heap, threads |-> S.threads,
          items |-> S.items,
          attachments |-> Restrict(S.attachments,
                                   DOMAIN S.attachments \ {attachment_id})]
    ELSE [status |-> "NotFound", heap |-> S.heap, threads |-> S.threads,
          items |-> S.items, attachments |-> S.attachments]

\* --------------------------------------------------------------- actions
\* The store after a handler returned r, the caller then holding o.
Commit(r, o) ==
    LET s == Settle(r.heap, r.threads, o)
    IN  /\ heap' = s.heap
        /\ threads' = s.threads
        /\ obj' = s.obj
        /\ items' = r.items
        /\ thread_keys' = DictKeys(thread_keys, DOMAIN r.threads)
        /\ attachments' = IF "attachments" \in DOMAIN r
                          THEN r.attachments ELSE attachments

\* save_thread(ThreadMetadata(id=thread_id, title=title,
\* created_at=created_at)): the caller builds the object for the call and
\* keeps no reference to it.
SaveThreadAt(thread_id, title, created_at) ==
    LET a == Alloc(heap)
        value == ThreadMetadata(thread_id, title, created_at)
        r == save_thread([St EXCEPT !.heap = (a :> value) @@ heap], a)
    IN  /\ Commit(r, obj)
        /\ saved' = (thread_id :> value) @@ saved
        /\ last' = [op |-> "save_thread", thread_id |-> thread_id,
                    thread |-> value, status |-> r.status]

SaveThread(thread_id, title) == SaveThreadAt(thread_id, title, Epoch)

\* save_thread(obj) with the object the caller holds, and goes on holding.
SaveThreadObj ==
    /\ obj # Null
    /\ LET r == save_thread(St, obj)
       IN  /\ Commit(r, obj)
           /\ saved' = (heap[obj].id :> heap[obj]) @@ saved
           /\ last' = [op |-> "save_thread", thread_id |-> heap[obj].id,
                       thread |-> heap[obj], status |-> r.status]

\* load_thread(thread_id); with keep the caller holds the returned object
\* afterwards, without it the caller only looks at its value.
LoadThread(thread_id, keep) ==
    LET r == load_thread(St, thread_id)
    IN  /\ Commit(r, IF keep /\ r.status = "ok" THEN r.ret ELSE obj)
        /\ last' = [op |-> "load_thread", thread_id |-> thread_id,
                    status |-> r.status,
                    thread |-> IF r.status = "ok"
                               THEN Some(r.heap[r.ret]) ELSE None]
        /\ UNCHANGED saved

DeleteThread(thread_id) ==
    LET r == delete_thread(St, thread_id)
    IN  /\ Commit(r, obj)
        /\ saved' = Restrict(saved, DOMAIN saved \ {thread_id})
        /\ last' = [op |-> "delete_thread", thread_id |-> thread_id,
                    status |-> r.status, removed |-> r.removed]

LoadThreadItems(thread_id, after, limit, order) ==
    LET r == load_thread_items(St, thread_id, after, limit, order)
    IN  /\ last' = [op |-> "load_thread_items", thread_id |-> thread_id,
                    after |-> after, limit |-> limit, order |-> order,
                    page |-> r]
        /\ UNCHANGED <<heap, threads, items, obj, saved, thread_keys,
                       attachments>>

LoadThreads(limit, after, order) ==
    LET r == load_threads(St, limit, after, order)
    IN  /\ last' = [op |-> "load_threads", after |-> after, limit |-> limit,
                    order |-> order, page |-> r]
        /\ UNCHANGED <<heap, threads, items, obj, saved, thread_keys,
                       attachments>>

AddThreadItem(thread_id, item) ==
    /\ TotalItems < MaxItems
    /\ LET r == add_thread_item(St, thread_id, item)
       IN  /\ Commit(r, obj)
           /\ last' = [op |-> "add_thread_item", thread_id |-> thread_id,
                       item |-> item, status |-> r.status]
           /\ UNCHANGED saved

SaveItem(thread_id, item) ==
    LET r == save_item(St, thread_id, item)
    IN  /\ Commit(r, obj)
        /\ last' = [op |-> "save_item", thread_id |-> thread_id,
                    item |-> item, status |-> r.status]
        /\ UNCHANGED saved

LoadItem(thread_id, item_id) ==
    LET r == load_item(St, thread_id, item_id)
    IN  /\ Commit(r, obj)
        /\ last' = [op |-> "load_item", thread_id |-> thread_id,
                    item_id |-> item_id, status |-> r.status,
                    item |-> r.ret]
        /\ UNCHANGED saved

DeleteThreadItem(thread_id, item_id) ==
    LET r == delete_thread_item(St, thread_id, item_id)
    IN  /\ Commit(r, obj)
        /\ last' = [op |-> "delete_thread_item", thread_id |-> thread_id,
                    item_id |-> item_id, status |-> r.status]
        /\ UNCHANGED saved

\* saved also keeps, by attachment id, the value save_attachment was given
\* last, until a delete_attachment of the id succeeds.
SaveAttachment(attachment) ==
    LET r == save_attachment(St, attachment)
    IN  /\ Commit(r, obj)
        /\ saved' = (attachment.id :> attachment) @@ saved
        /\ last' = [op |-> "save_attachment", attachment |-> attachment,
                    status |-> r.status]

LoadAttachment(attachment_id) ==
    LET r == load_attachment(St, attachment_id)
    IN  /\ Commit(r, obj)
        /\ last' = [op |-> "load_attachment",
                    attachment_id |-> attachment_id, status |-> r.status,
                    attachment |-> r.ret]
        /\ UNCHANGED saved

\* `again` tells a delete that follows a successful delete of the same id.
DeleteAttachment(attachment_id) ==
    LET r == delete_attachment(St, attachment_id)
    IN  /\ Commit(r, obj)
        /\ saved' = IF r.status = "ok"
                    THEN Restrict(saved, DOMAIN saved \ {attachment_id})
                    ELSE saved
        /\ last' = [op |-> "delete_attachment",
                    attachment_id |-> attachment_id, status |-> r.status,
                    again |-> /\ last.op = "delete_attachment"
                              /\ last.attachment_id = attachment_id
                              /\ last.status = "ok"]

\* ------------------------------------------------- the store on its own
\* A client that is not reading anything back.
Idle == [phase |-> "idle", sent |-> <<>>]
\* No concurrent callers, and no conversation turn.
NoTasks == [lock |-> None, pc |-> <<>>]
NoTurn == [phase |-> "none"]
\* No ticketing tool has been called.
NoTool == [pc |-> "idle"]

Init ==
    /\ heap = <<>>
    /\ threads = <<>>
    /\ items = <<>>
    /\ obj = Null
    /\ saved = <<>>
    /\ client = Idle
    /\ last = [op |-> "init"]
    /\ thread_keys = <<>>
    /\ attachments = <<>>
    /\ tasks = NoTasks
    /\ turn = NoTurn
    /\ zoho = NoTool

\* Callers of the store's thread and item operations, two thread ids.
Next ==
    \/ \E t \in ThreadIds : SaveThread(t, None) /\ UNCHANGED <<client, tasks, turn, zoho>>
    \/ \E t \in ThreadIds : LoadThread(t, FALSE) /\ UNCHANGED <<client, tasks, turn, zoho>>
    \/ \E t \in ThreadIds : DeleteThread(t) /\ UNCHANGED <<client, tasks, turn, zoho>>
    \/ \E t \in ThreadIds, it \in Items :
            AddThreadItem(t, it) /\ UNCHANGED <<client, tasks, turn, zoho>>
    \/ \E t \in ThreadIds, it \in Items :
            SaveItem(t, it) /\ UNCHANGED <<client, tasks, turn, zoho>>
    \/ \E t \in ThreadIds, i \in ItemIds :
            DeleteThreadItem(t, i) /\ UNCHANGED <<client, tasks, turn, zoho>>
    \/ \E t \in ThreadIds, i \in ItemIds :
            LoadItem(t, i) /\ UNCHANGED <<client, tasks, turn, zoho>>

Spec == Init /\ [][Next]_vars

\* ------------------------------------------- reading pages of one thread
\* Every cursor, limit and order against every item sequence of a thread.
ReadThreads == {"t1"}

NextRead ==
    \/ \E t \in ReadThreads : SaveThread(t, None) /\ UNCHANGED <<client, tasks, turn, zoho>>
    \/ \E t \in ReadThreads : DeleteThread(t) /\ UNCHANGED <<client, tasks, turn, zoho>>
    \/ \E t \in ReadThreads, it \in Items :
            AddThreadItem(t, it) /\ UNCHANGED <<client, tasks, turn, zoho>>
    \/ \E t \in ReadThreads, i \in ItemIds :
            DeleteThreadItem(t, i) /\ UNCHANGED <<client, tasks, turn, zoho>>
    \/ \E t \in ReadThreads, c \in Cursors, n \in Limits, o \in Orders :
            LoadThreadItems(t, c, n, o) /\ UNCHANGED <<client, tasks, turn, zoho>>

SpecRead == Init /\ [][NextRead]_vars

\* ------------------------------------- a client that reads back its items
\* Calls of load_thread_items one read-back may make.
MaxCalls == 5

ClientThreads == {"t1"}
ClientItemIds == {"", "a", "b", "c"}
ClientItems == [id : ClientItemIds, val : Payloads]
ClientLimits == 0 .. MaxLimit

\* The items the client appended to thread t, in the order of its calls.
Sent(t) == IF t \in DOMAIN client.sent THEN client.sent[t] ELSE <<>>

ClientSave(t) ==
    /\ client.phase = "idle"
    /\ SaveThread(t, None)
    /\ UNCHANGED <<client, tasks, turn, zoho>>

ClientAppend(t, it) ==
    /\ client.phase = "idle"
    /\ AddThreadItem(t, it)
    /\ client' = IF last'.status = "ok"
                 THEN [client EXCEPT !.sent = (t :> Append(Sent(t), it)) @@ @]
                 ELSE client
    /\ UNCHANGED <<tasks, turn, zoho>>

\* Start reading thread t back: after=None, a limit and an order.
ClientStart(t, n, o) ==
    /\ client.phase = "idle"
    /\ t \in DOMAIN threads
    /\ client' = [phase |-> "paging", sent |-> client.sent, thread_id |-> t,
                  limit |-> n, order |-> o, after |-> None, acc |-> <<>>,
                  calls |-> 0]
    /\ UNCHANGED <<heap, threads, items, obj, saved, last, thread_keys,
                   attachments, tasks, turn, zoho>>

\* One call of the read-back loop: load the page after the last item id of
\* the previous page, accumulate it, stop when has_more is false.
ClientPage ==
    /\ client.phase = "paging"
    /\ client.calls < MaxCalls
    /\ LoadThreadItems(client.thread_id, client.after, client.limit,
                       client.order)
    /\ LET page == last'.page
       IN  client' =
             IF page.status # "ok"
             THEN [client EXCEPT !.phase = "failed", !.calls = @ + 1]
             ELSE [client EXCEPT
                     !.phase = IF page.has_more THEN "paging" ELSE "done",
                     !.after = IF page.data # <<>>
                               THEN Some(page.data[Len(page.data)].id)
                               ELSE None,
                     !.acc = @ \o page.data,
                     !.calls = @ + 1]
    /\ UNCHANGED <<tasks, turn, zoho>>

NextClient ==
    \/ \E t \in ClientThreads : ClientSave(t)
    \/ \E t \in ClientThreads, it \in ClientItems : ClientAppend(t, it)
    \/ \E t \in ClientThreads, n \in ClientLimits, o \in Orders :
            ClientStart(t, n, o)
    \/ ClientPage

SpecClient == Init /\ [][NextClient]_vars

\* --------------------------------- a caller that mutates its own objects
\* thread = ThreadMetadata(id=thread_id, title=title)
CallerNew(thread_id, title) ==
    LET a == Alloc(heap)
        value == ThreadMetadata(thread_id, title, Epoch)
    IN  /\ Commit([heap |-> (a :> value) @@ heap, threads |-> threads,
                   items |-> items], a)
        /\ last' = [op |-> "new", previous |-> last.op]
        /\ UNCHANGED saved

\* thread.title = title, on whatever object the caller holds.
CallerMutate(title) ==
    /\ obj # Null
    /\ heap[obj].title # title
    /\ heap' = [heap EXCEPT ![obj].title = title]
    /\ last' = [op |-> "mutate", previous |-> last.op]
    /\ UNCHANGED <<threads, items, obj, saved, thread_keys, attachments>>

NextAlias ==
    \/ \E t \in ThreadIds, ti \in Titles : CallerNew(t, ti) /\ UNCHANGED <<client, tasks, turn, zoho>>
    \/ \E ti \in Titles : CallerMutate(ti) /\ UNCHANGED <<client, tasks, turn, zoho>>
    \/ SaveThreadObj /\ UNCHANGED <<client, tasks, turn, zoho>>
    \/ \E t \in ThreadIds : LoadThread(t, TRUE) /\ UNCHANGED <<client, tasks, turn, zoho>>
    \/ \E t \in ThreadIds : DeleteThread(t) /\ UNCHANGED <<client, tasks, turn, zoho>>

SpecAlias == Init /\ [][NextAlias]_vars

\* ------------------------------------- saving threads that may be stored
\* Threads are saved again with another title while they hold items.
NextSave ==
    \/ \E t \in ThreadIds, ti \in Titles :
            SaveThread(t, ti) /\ UNCHANGED <<client, tasks, turn, zoho>>
    \/ \E t \in ThreadIds : DeleteThread(t) /\ UNCHANGED <<client, tasks, turn, zoho>>
    \/ \E t \in ThreadIds, it \in Items :
            AddThreadItem(t, it) /\ UNCHANGED <<client, tasks, turn, zoho>>

SpecSave == Init /\ [][NextSave]_vars

\* ------------------------------------------------- listing the threads
\* Threads with equal and unequal creation times, saved in every order.
ListedIds == {"t1", "t2", "t3"}
ThreadCursors == {None, Some("")} \cup {Some(t) : t \in ListedIds}

NextThreads ==
    \/ \E t \in ListedIds, c \in CreatedAts :
            SaveThreadAt(t, None, c) /\ UNCHANGED <<client, tasks, turn, zoho>>
    \/ \E t \in ListedIds : DeleteThread(t) /\ UNCHANGED <<client, tasks, turn, zoho>>
    \/ \E n \in Limits, c \in ThreadCursors, o \in Orders :
            LoadThreads(n, c, o) /\ UNCHANGED <<client, tasks, turn, zoho>>

SpecThreads == Init /\ [][NextThreads]_vars

\* --------------------------------------- pages of items and of threads
\* Both paged reads against one store: two threads, items in one of them.
PagedThread == "t1"
PageItems == [id : ItemIds, val : {0}]

NextPages ==
    \/ \E t \in ThreadIds, c \in CreatedAts :
            SaveThreadAt(t, None, c) /\ UNCHANGED <<client, tasks, turn, zoho>>
    \/ \E it \in PageItems :
            AddThreadItem(PagedThread, it) /\ UNCHANGED <<client, tasks, turn, zoho>>
    \/ \E c \in Cursors, n \in Limits, o \in Orders :
            LoadThreadItems(PagedThread, c, n, o)
                /\ UNCHANGED <<client, tasks, turn, zoho>>
    \/ \E n \in Limits, c \in ThreadCursors, o \in Orders :
            LoadThreads(n, c, o) /\ UNCHANGED <<client, tasks, turn, zoho>>

SpecPages == Init /\ [][NextPages]_vars

\* ------------------------------------- attachments next to one thread
AttachedThread == "t1"

NextAttach ==
    \/ \E a \in Attachments :
            SaveAttachment(a) /\ UNCHANGED <<client, tasks, turn, zoho>>
    \/ \E f \in AttachmentIds :
            LoadAttachment(f) /\ UNCHANGED <<client, tasks, turn, zoho>>
    \/ \E f \in AttachmentIds :
            DeleteAttachment(f) /\ UNCHANGED <<client, tasks, turn, zoho>>
    \/ SaveThread(AttachedThread, None) /\ UNCHANGED <<client, tasks, turn, zoho>>
    \/ LoadThread(AttachedThread, FALSE) /\ UNCHANGED <<client, tasks, turn, zoho>>
    \/ DeleteThread(AttachedThread) /\ UNCHANGED <<client, tasks, turn, zoho>>
    \/ \E it \in PageItems :
            AddThreadItem(AttachedThread, it)
                /\ UNCHANGED <<client, tasks, turn, zoho>>
    \/ \E it \in PageItems :
            SaveItem(AttachedThread, it) /\ UNCHANGED <<client, tasks, turn, zoho>>
    \/ \E i \in ItemIds :
            LoadItem(AttachedThread, i) /\ UNCHANGED <<client, tasks, turn, zoho>>
    \/ \E i \in ItemIds :
            DeleteThreadItem(AttachedThread, i)
                /\ UNCHANGED <<client, tasks, turn, zoho>>
    \/ \E o \in Orders :
            LoadThreadItems(AttachedThread, None, 0, o)
                /\ UNCHANGED <<client, tasks, turn, zoho>>
    \/ \E o \in Orders :
            LoadThreads(0, None, o) /\ UNCHANGED <<client, tasks, turn, zoho>>

SpecAttach == Init /\ [][NextAttach]_vars

\* ------------------------------------------- callers that run concurrently
\* Coroutines that call the store at the same time.  A call waits at
\* `async with self._lock`, enters when the lock is free, reads the
\* collections, and on leaving writes them and releases the lock.  The
\* handlers have no await inside the block; the entry and the exit are kept
\* apart here so that nothing but the lock keeps two calls from overlapping.
Callers == {"c1", "c2"}
LockedThread == "t1"
Calls ==
    {[op |-> "save_thread", thread_id |-> LockedThread],
     [op |-> "delete_thread", thread_id |-> LockedThread],
     [op |-> "load_thread_items", thread_id |-> LockedThread]}
    \cup {[op |-> "add_thread_item", thread_id |-> LockedThread, item |-> it] :
             it \in PageItems}

\* Where caller c is: "idle" when it is in no call.
PcOf(T, c) == IF c \in DOMAIN T.pc THEN T.pc[c] ELSE [at |-> "idle"]

\* Faulty variant: the lock is taken whether or not it is held.
LockIgnored(T) == TRUE
\* asyncio.Lock: acquire() goes through when the lock is not locked.
LockFree(T) == T.lock = None

\* The handler of a call applied to the store S: the store it leaves and
\* what it gives back to the caller.
Run(S, call) ==
    CASE call.op = "save_thread" ->
            LET a == Alloc(S.heap)
                value == ThreadMetadata(call.thread_id, None, Epoch)
                r == save_thread([S EXCEPT !.heap = (a :> value) @@ S.heap], a)
            IN  [heap |-> r.heap, threads |-> r.threads, items |-> r.items,
                 ret |-> [status |-> r.status]]
      [] call.op = "delete_thread" ->
            LET r == delete_thread(S, call.thread_id)
            IN  [heap |-> r.heap, threads |-> r.threads, items |-> r.items,
                 ret |-> [status |-> r.status]]
      [] call.op = "add_thread_item" ->
            LET r == add_thread_item(S, call.thread_id, call.item)
            IN  [heap |-> r.heap, threads |-> r.threads, items |-> r.items,
                 ret |-> [status |-> r.status]]
      [] call.op = "load_thread_items" ->
            [heap |-> S.heap, threads |-> S.threads, items |-> S.items,
             ret |-> load_thread_items(S, call.thread_id, None, 0, "asc")]
      [] call.op = "load_thread_items_after" ->
            [heap |-> S.heap, threads |-> S.threads, items |-> S.items,
             ret |-> load_thread_items(S, call.thread_id, Some(call.after),
                                       0, "asc")]
      [] call.op = "load_threads_after" ->
            [heap |-> S.heap, threads |-> S.threads, items |-> S.items,
             ret |-> load_threads(S, 0, Some(call.after), "asc")]
      [] call.op = "load_thread" ->
            LET r == load_thread(S, call.thread_id)
            IN  [heap |-> r.heap, threads |-> r.threads, items |-> r.items,
                 ret |-> [status |-> r.status]]
      [] call.op = "save_item" ->
            LET r == save_item(S, call.thread_id, call.item)
            IN  [heap |-> r.heap, threads |-> r.threads, items |-> r.items,
                 ret |-> [status |-> r.status]]
      [] call.op = "load_item" ->
            LET r == load_item(S, call.thread_id, call.item_id)
            IN  [heap |-> r.heap, threads |-> r.threads, items |-> r.items,
                 ret |-> [status |-> r.status, item |-> r.ret]]
      [] call.op = "delete_thread_item" ->
            LET r == delete_thread_item(S, call.thread_id, call.item_id)
            IN  [heap |-> r.heap, threads |-> r.threads, items |-> r.items,
                 ret |-> [status |-> r.status]]
      [] call.op = "save_attachment" ->
            LET r == save_attachment(S, call.attachment)
            IN  [heap |-> r.heap, threads |-> r.threads, items |-> r.items,
                 attachments |-> r.attachments, ret |-> [status |-> r.status]]
      [] call.op = "load_attachment" ->
            LET r == load_attachment(S, call.attachment_id)
            IN  [heap |-> r.heap, threads |-> r.threads, items |-> r.items,
                 attachments |-> r.attachments,
                 ret |-> [status |-> r.status, attachment |-> r.ret]]
      [] call.op = "delete_attachment" ->
            LET r == delete_attachment(S, call.attachment_id)
            IN  [heap |-> r.heap, threads |-> r.threads, items |-> r.items,
                 attachments |-> r.attachments, ret |-> [status |-> r.status]]

\* The coroutine is called and reaches `async with self._lock`.
TaskCall(c, call) ==
    /\ PcOf(tasks, c).at = "idle"
    /\ call.op = "add_thread_item" => TotalItems < MaxItems
    /\ tasks' = [tasks EXCEPT !.pc = (c :> [at |-> "waiting", call |-> call]) @@ @]
    /\ UNCHANGED <<heap, threads, items, obj, saved, last, thread_keys,
                   attachments>>

\* The lock is acquired and the body reads the collections.
TaskEnter(c) ==
    /\ PcOf(tasks, c).at = "waiting"
    /\ LockFree(tasks)
    /\ tasks' = [lock |-> Some(c),
                 pc |-> [tasks.pc EXCEPT ![c] =
                            [at |-> "critical", call |-> @.call, view |-> St]]]
    /\ UNCHANGED <<heap, threads, items, obj, saved, last, thread_keys,
                   attachments>>

\* Faulty variant: the lock stays with the caller that leaves.
ReleaseNever(T) == T.lock
\* The end of `async with self._lock`: release().
Release(T) == None

\* The body writes the collections, the lock is released and the call
\* returns.
TaskLeave(c) ==
    /\ PcOf(tasks, c).at = "critical"
    /\ LET r == Run(tasks.pc[c].view, tasks.pc[c].call)
       IN  /\ Commit(r, obj)
           /\ last' = [op |-> "return", caller |-> c,
                       call |-> tasks.pc[c].call, ret |-> r.ret]
    /\ tasks' = [lock |-> Release(tasks),
                 pc |-> Restrict(tasks.pc, DOMAIN tasks.pc \ {c})]
    /\ UNCHANGED saved

NextLock ==
    \/ \E c \in Callers, call \in Calls :
            TaskCall(c, call) /\ UNCHANGED <<client, turn, zoho>>
    \/ \E c \in Callers : TaskEnter(c) /\ UNCHANGED <<client, turn, zoho>>
    \/ \E c \in Callers : TaskLeave(c) /\ UNCHANGED <<client, turn, zoho>>

SpecLock == Init /\ [][NextLock]_vars

\* ------------------------------------------------- two threads side by side
\* The operations on threads and items, each on either of two threads, and
\* load_threads.
NextSides ==
    \/ \E t \in ThreadIds, ti \in Titles :
            SaveThread(t, ti) /\ UNCHANGED <<client, tasks, turn, zoho>>
    \/ \E t \in ThreadIds :
            LoadThread(t, FALSE) /\ UNCHANGED <<client, tasks, turn, zoho>>
    \/ \E t \in ThreadIds :
            DeleteThread(t) /\ UNCHANGED <<client, tasks, turn, zoho>>
    \/ \E t \in ThreadIds, it \in PageItems :
            AddThreadItem(t, it) /\ UNCHANGED <<client, tasks, turn, zoho>>
    \/ \E t \in ThreadIds, it \in Items :
            SaveItem(t, it) /\ UNCHANGED <<client, tasks, turn, zoho>>
    \/ \E t \in ThreadIds, i \in ItemIds :
            DeleteThreadItem(t, i) /\ UNCHANGED <<client, tasks, turn, zoho>>
    \/ \E t \in ThreadIds, i \in ItemIds :
            LoadItem(t, i) /\ UNCHANGED <<client, tasks, turn, zoho>>
    \/ \E t \in ThreadIds, o \in Orders :
            LoadThreadItems(t, None, 0, o)
                /\ UNCHANGED <<client, tasks, turn, zoho>>
    \/ \E o \in Orders :
            LoadThreads(0, None, o) /\ UNCHANGED <<client, tasks, turn, zoho>>

SpecSides == Init /\ [][NextSides]_vars

\* ------------------------------------------- callers whose calls may fail
\* Every operation of the store, on a thread, items and an attachment that
\* may or may not be there, and with cursors that may match nothing.
FailItem == [id |-> "a", val |-> 0]
FailCalls ==
    {[op |-> o, thread_id |-> LockedThread] :
        o \in {"save_thread", "load_thread", "delete_thread",
               "load_thread_items"}}
    \cup {[op |-> o, thread_id |-> LockedThread, item |-> FailItem] :
            o \in {"add_thread_item", "save_item"}}
    \cup {[op |-> o, thread_id |-> LockedThread, item_id |-> FailItem.id] :
            o \in {"load_item", "delete_thread_item"}}
    \cup {[op |-> "load_thread_items_after", thread_id |-> LockedThread,
           after |-> FailItem.id],
          [op |-> "load_threads_after", after |-> "t2"],
          [op |-> "save_attachment",
           attachment |-> [id |-> "f1", val |-> 0]]}
    \cup {[op |-> o, attachment_id |-> "f1"] :
            o \in {"load_attachment", "delete_attachment"}}

NextFail ==
    \/ \E c \in Callers, call \in FailCalls :
            TaskCall(c, call) /\ UNCHANGED <<client, turn, zoho>>
    \/ \E c \in Callers : TaskEnter(c) /\ UNCHANGED <<client, turn, zoho>>
    \/ \E c \in Callers : TaskLeave(c) /\ UNCHANGED <<client, turn, zoho>>

SpecFail == Init /\ [][NextFail]_vars

\* ------------------------------------- callers that wait for the network
\* A coroutine such as the title task awaits a collaborator over the
\* network and then calls the store with what it got: `await Runner.run`,
\* then `await self.store.save_thread`.  The await is outside the store,
\* before the call reaches `async with self._lock`.
NetworkCalls ==
    {[op |-> "save_thread", thread_id |-> LockedThread],
     [op |-> "delete_thread", thread_id |-> LockedThread],
     [op |-> "add_thread_item", thread_id |-> LockedThread,
      item |-> [id |-> "a", val |-> 0]]}

TaskAwait(c, call) ==
    /\ PcOf(tasks, c).at = "idle"
    /\ call.op = "add_thread_item" => TotalItems < MaxItems
    /\ tasks' = [tasks EXCEPT !.pc = (c :> [at |-> "network", call |-> call]) @@ @]
    /\ UNCHANGED <<heap, threads, items, obj, saved, last, thread_keys,
                   attachments>>

\* The collaborator answers and the coroutine goes on to its store call.
TaskResume(c) ==
    /\ PcOf(tasks, c).at = "network"
    /\ tasks' = [tasks EXCEPT !.pc[c].at = "waiting"]
    /\ UNCHANGED <<heap, threads, items, obj, saved, last, thread_keys,
                   attachments>>

NextNetwork ==
    \/ \E c \in Callers, call \in NetworkCalls :
            TaskCall(c, call) /\ UNCHANGED <<client, turn, zoho>>
    \/ \E c \in Callers, call \in NetworkCalls :
            TaskAwait(c, call) /\ UNCHANGED <<client, turn, zoho>>
    \/ \E c \in Callers : TaskResume(c) /\ UNCHANGED <<client, turn, zoho>>
    \/ \E c \in Callers : TaskEnter(c) /\ UNCHANGED <<client, turn, zoho>>
    \/ \E c \in Callers : TaskLeave(c) /\ UNCHANGED <<client, turn, zoho>>

\* The event loop runs a coroutine that is not suspended, so a caller
\* inside the block reaches its end; asyncio.Lock wakes its waiters in the
\* order they came, so no waiter is passed over for ever.  Nothing is
\* assumed of the network: a collaborator may never answer.
SpecNetwork ==
    /\ Init
    /\ [][NextNetwork]_vars
    /\ \A c \in Callers :
          /\ WF_vars(TaskLeave(c) /\ UNCHANGED <<client, turn, zoho>>)
          /\ SF_vars(TaskEnter(c) /\ UNCHANGED <<client, turn, zoho>>)

\* ------------------------------------------------ a conversation turn
\* KnowledgeAssistantServer.respond and the title task it spawns
\* (backend/app/main.py).  A text is a sequence of characters.
\* Most events one response stream yields.
MaxEvents == 2
\* Most content parts of a user message.
MaxParts == 2

Chars == {" ", "x"}
Texts == {<<>>} \cup {<<c>> : c \in Chars}
\* A content part: its text attribute, None when the part has none.
Parts == {None} \cup {Some(t) : t \in Texts}
Contents == UNION {[1 .. n -> Parts] : n \in 0 .. MaxParts}
\* What respond may be given as item: None, a ClientToolCallItem, another
\* item that is not a user message, a UserMessageItem.
TurnItems ==
    {[kind |-> "none"], [kind |-> "client_tool_call"],
     [kind |-> "assistant_message"]}
    \cup {[kind |-> "user_message", content |-> c] : c \in Contents}
\* thread.metadata.get("previous_response_id") before the turn, and
\* result.last_response_id of the turn's run.
Tokens == {None, Some("r0")}
\* Events the streaming run may emit.
Events == {"e1", "e2"}
LastResponseId == "r1"
TurnThread == "t1"

\* " ".join(parts)
RECURSIVE Join(_)
Join(parts) ==
    IF parts = <<>> THEN <<>>
    ELSE IF Len(parts) = 1 THEN parts[1]
    ELSE parts[1] \o <<" ">> \o Join(Tail(parts))
\* str.strip()
RECURSIVE LStrip(_)
LStrip(t) == IF t # <<>> /\ t[1] = " " THEN LStrip(Tail(t)) ELSE t
Strip(t) == Reverse(LStrip(Reverse(LStrip(t))))

\* Faulty variant: the joined text is returned as it is.
UserMessageTextUnstripped(item) ==
    LET kept == SelectSeq(item.content, LAMBDA p : p # None /\ p[1] # <<>>)
    IN  Join([i \in 1 .. Len(kept) |-> kept[i][1]])
_user_message_text(item) ==
    LET kept == SelectSeq(item.content, LAMBDA p : p # None /\ p[1] # <<>>)
    IN  Strip(Join([i \in 1 .. Len(kept) |-> kept[i][1]]))

_is_tool_completion_item(item) == item.kind = "client_tool_call"

\* Faulty variant: the title is generated whatever the thread's title.
TitleAlwaysMissing(thread) == TRUE
\* maybe_update_thread_title goes on when `thread.title is not None` fails.
TitleMissing(thread) == thread.title = None

\* Faulty variant: the title task is created before the item is looked at.
respond_TaskFirst(thread, item) ==
    IF item.kind # "user_message"
    THEN [phase |-> "done", title_task |-> "created", generation |-> 0,
          passed |-> None]
    ELSE IF _user_message_text(item) = <<>>
    THEN [phase |-> "done", title_task |-> "created", generation |-> 0,
          passed |-> None]
    ELSE [phase |-> "streaming", title_task |-> "created", generation |-> 1,
          passed |-> thread.previous_response_id]
\* respond up to its first suspension: the early returns, create_task,
\* the text check and the call of Runner.run_streamed.  generation counts
\* the calls of run_streamed, passed is the previous_response_id given.
respond(thread, item) ==
    IF item.kind = "none"
    THEN [phase |-> "done", title_task |-> "absent", generation |-> 0,
          passed |-> None]
    ELSE IF _is_tool_completion_item(item)
    THEN [phase |-> "done", title_task |-> "absent", generation |-> 0,
          passed |-> None]
    ELSE IF item.kind # "user_message"
    THEN [phase |-> "done", title_task |-> "absent", generation |-> 0,
          passed |-> None]
    ELSE LET message_text == _user_message_text(item)
         IN  IF message_text = <<>>
             THEN [phase |-> "done", title_task |-> "created",
                   generation |-> 0, passed |-> None]
             ELSE [phase |-> "streaming", title_task |-> "created",
                   generation |-> 1,
                   passed |-> thread.previous_response_id]

\* Faulty variant: the newest event is put in front of the ones relayed.
RelayNewestFirst(relayed, event) == <<event>> \o relayed
\* yield event: what the caller has received, in the order received.
Relay(relayed, event) == Append(relayed, event)

TitlePending == turn.phase # "none" /\ turn.title_task \in {"created", "calling"}

\* The server holds a stored thread and calls respond(thread, item).
\* thread0 keeps the thread's value at the call, emitted the events the
\* run has produced, earlier the token that the thread's latest completed
\* turn with text produced (None when it had no such turn).
TurnStart(title, token, item) ==
    /\ turn.phase \in {"none", "done", "abandoned"}
    /\ ~TitlePending
    /\ LET a == Alloc(heap)
           value == [ThreadMetadata(TurnThread, title, Epoch)
                        EXCEPT !.previous_response_id = token]
           r == save_thread([St EXCEPT !.heap = (a :> value) @@ heap], a)
       IN  /\ Commit(r, a)
           /\ turn' = [phase |-> "called", item |-> item, thread0 |-> value,
                       events |-> 0, generation |-> 0, passed |-> None,
                       title_task |-> "absent", title_calls |-> 0,
                       emitted |-> <<>>, relayed |-> <<>>,
                       earlier |-> token, title_after_token |-> FALSE,
                       produced |-> None, follows |-> FALSE]
    /\ UNCHANGED <<saved, last>>

\* The token the thread's latest completed turn with text has produced,
\* once this turn is over.
Produced(t) ==
    IF t.phase = "done" /\ t.generation = 1 THEN t.produced ELSE t.earlier

\* The next turn of the same thread: respond(thread, item) is called with
\* the thread as the turn before left it.
TurnNext(item) ==
    /\ turn.phase \in {"done", "abandoned"}
    /\ ~TitlePending
    /\ turn' = [phase |-> "called", item |-> item, thread0 |-> heap[obj],
                events |-> 0, generation |-> 0, passed |-> None,
                title_task |-> "absent", title_calls |-> 0,
                emitted |-> <<>>, relayed |-> <<>>,
                earlier |-> Produced(turn), title_after_token |-> FALSE,
                produced |-> None, follows |-> TRUE]
    /\ UNCHANGED <<heap, threads, items, obj, saved, last, thread_keys,
                   attachments>>

\* The generator runs to its first suspension or to its return.
Respond ==
    /\ turn.phase = "called"
    /\ LET r == respond(heap[obj], turn.item)
       IN  turn' = [turn EXCEPT !.phase = r.phase,
                                !.title_task = r.title_task,
                                !.generation = r.generation,
                                !.passed = r.passed]
    /\ UNCHANGED <<heap, threads, items, obj, saved, last, thread_keys,
                   attachments>>

\* The generator runs on only while its caller asks it for the next event.
ConsumedOrNot(t) == t.phase \in {"streaming", "abandoned"}
Consumed(t) == t.phase = "streaming"

\* async for event in stream_agent_response(...): yield event
\* The run emits `event`, respond takes it and yields it to the caller.
StreamEvent(event) ==
    /\ Consumed(turn)
    /\ turn.events < MaxEvents
    /\ turn' = [turn EXCEPT !.events = @ + 1,
                            !.emitted = Append(@, event),
                            !.relayed = Relay(@, event)]
    /\ UNCHANGED <<heap, threads, items, obj, saved, last, thread_keys,
                   attachments>>

\* The stream is exhausted:
\* thread.metadata["previous_response_id"] = result.last_response_id
\* with r the run's last_response_id.
StreamEndsUnwritten(r) ==
    /\ Consumed(turn)
    /\ turn' = [turn EXCEPT !.phase = "done", !.produced = Some(r)]
    /\ UNCHANGED <<heap, threads, items, obj, saved, last, thread_keys,
                   attachments>>

StreamEndsWith(r) ==
    /\ Consumed(turn)
    /\ heap' = [heap EXCEPT ![obj].previous_response_id = Some(r)]
    /\ turn' = [turn EXCEPT !.phase = "done", !.produced = Some(r)]
    /\ UNCHANGED <<threads, items, obj, saved, last, thread_keys,
                   attachments>>

StreamEnd == StreamEndsWith(LastResponseId)

\* The caller stops asking for events: before it asked for the first, or
\* while the generator is suspended at a yield.  The generator is never
\* resumed, or is closed where it is suspended.
TurnAbandon ==
    /\ turn.phase = "called" \/ (turn.phase = "streaming" /\ turn.events > 0)
    /\ turn' = [turn EXCEPT !.phase = "abandoned"]
    /\ UNCHANGED <<heap, threads, items, obj, saved, last, thread_keys,
                   attachments>>

\* The title task starts: it returns at once for a thread with a title,
\* otherwise it calls Runner.run(title_agent, ...).
TitleStart ==
    /\ turn.phase # "none"
    /\ turn.title_task = "created"
    /\ turn' = IF TitleMissing(heap[obj])
               THEN [turn EXCEPT !.title_task = "calling",
                                 !.title_calls = @ + 1]
               ELSE [turn EXCEPT !.title_task = "returned"]
    /\ UNCHANGED <<heap, threads, items, obj, saved, last, thread_keys,
                   attachments>>

\* Faulty variant: a new thread value is built around the title, without
\* the metadata.
SetTitleOfNewThread(thread, title) ==
    ThreadMetadata(thread.id, title, thread.created_at)
\* thread.title = title
SetTitle(thread, title) == [thread EXCEPT !.title = title]

\* Runner.run returns: thread.title = run.final_output, then
\* save_thread(thread).  title_after_token records whether the turn had
\* written its token before.
TitleReturn ==
    /\ turn.phase # "none"
    /\ turn.title_task = "calling"
    /\ LET h == [heap EXCEPT ![obj] = SetTitle(@, Some("T"))]
           r == save_thread([St EXCEPT !.heap = h], obj)
       IN  Commit(r, obj)
    /\ turn' = [turn EXCEPT !.title_task = "saved",
                            !.title_after_token =
                                (turn.phase = "done" /\ turn.generation = 1)]
    /\ UNCHANGED <<saved, last>>

\* Runner.run raises: the task ends with the exception.
TitleFail ==
    /\ turn.phase # "none"
    /\ turn.title_task = "calling"
    /\ turn' = [turn EXCEPT !.title_task = "failed"]
    /\ UNCHANGED <<heap, threads, items, obj, saved, last, thread_keys,
                   attachments>>

NextTurn ==
    \/ \E ti \in Titles, tok \in Tokens, it \in TurnItems :
            TurnStart(ti, tok, it) /\ UNCHANGED <<client, tasks, zoho>>
    \/ Respond /\ UNCHANGED <<client, tasks, zoho>>
    \/ \E e \in Events : StreamEvent(e) /\ UNCHANGED <<client, tasks, zoho>>
    \/ StreamEnd /\ UNCHANGED <<client, tasks, zoho>>
    \/ TitleStart /\ UNCHANGED <<client, tasks, zoho>>
    \/ TitleReturn /\ UNCHANGED <<client, tasks, zoho>>
    \/ TitleFail /\ UNCHANGED <<client, tasks, zoho>>

\* The event loop runs every task that is ready, and the response stream
\* of the text-generation collaborator ends; nothing is assumed of the
\* title collaborator, whose call may never return.
SpecTurn ==
    /\ Init
    /\ [][NextTurn]_vars
    /\ WF_vars(Respond /\ UNCHANGED <<client, tasks, zoho>>)
    /\ WF_vars(StreamEnd /\ UNCHANGED <<client, tasks, zoho>>)

\* ------------------------------------------- the turns of one thread
\* The response ids the text-generation collaborator hands out.
ResponseIds == {"r1", "r2"}

\* The items of the turns: those with at most one content part.
TalkItems ==
    { i \in TurnItems : i.kind = "user_message" => Len(i.content) <= 1 }

\* A thread is created without a token and takes one turn after another;
\* the caller may stop consuming the stream of any of them.
NextTalk ==
    \/ \E ti \in Titles, it \in TalkItems :
            TurnStart(ti, None, it) /\ UNCHANGED <<client, tasks, zoho>>
    \/ \E it \in TalkItems : TurnNext(it) /\ UNCHANGED <<client, tasks, zoho>>
    \/ Respond /\ UNCHANGED <<client, tasks, zoho>>
    \/ \E e \in Events : StreamEvent(e) /\ UNCHANGED <<client, tasks, zoho>>
    \/ \E r \in ResponseIds :
            StreamEndsWith(r) /\ UNCHANGED <<client, tasks, zoho>>
    \/ TurnAbandon /\ UNCHANGED <<client, tasks, zoho>>
    \/ TitleStart /\ UNCHANGED <<client, tasks, zoho>>
    \/ TitleReturn /\ UNCHANGED <<client, tasks, zoho>>
    \/ TitleFail /\ UNCHANGED <<client, tasks, zoho>>

SpecTalk == Init /\ [][NextTalk]_vars

\* ------------------------------------------------ the ticketing tools
\* One call of a ticketing tool, statement by statement: the progress
\* update, ZohoAuth() and ZohoDeskClient(auth), the client's requests, and in
\* get_zoho_ticket the ticket data, the widget and its streaming.  Every
\* call that leaves the process may fail; zoho.wire is what was sent, in
\* the order it was sent: where to, with which Authorization header, and
\* for a token request the token that was granted.
Tools == {"get_zoho_ticket", "create_zoho_ticket_draft",
          "add_zoho_ticket_note"}

\* The access_token of a token response; "" is a token that is not truthy.
AccessTokens == {"", "tok"}
\* What the accounts server answers: no token (None), or a token.
TokenReplies == {None} \cup {Some(t) : t \in AccessTokens}

\* A JSON body of the ticketing API, as far as the tools look at it: whether
\* it is truthy, its "id", and how many conversations it carries.
TicketIds == {None, Some("42")}
Bodies ==
    { b \in [truthy : BOOLEAN, id : TicketIds, conversations : 0 .. 1] :
        ~b.truthy => b.id = None /\ b.conversations = 0 }
\* What the ticketing API answers: a failure (None), or a body.
ApiReplies == {None} \cup {Some(b) : b \in Bodies}

\* The message of each tool's failure result.
FailureMessage(tool) ==
    CASE tool = "get_zoho_ticket" -> "Failed to fetch ticket from Zoho Desk"
      [] tool = "create_zoho_ticket_draft" -> "Failed to create draft reply."
      [] tool = "add_zoho_ticket_note" -> "Failed to add note."

\* The result dictionaries; error is None where the dictionary has no
\* "error" key.
Failure(tool) ==
    [success |-> FALSE, message |-> FailureMessage(tool),
     error |-> Some("str(e)")]
NoTicketFound ==
    [success |-> FALSE, message |-> "No ticket found", error |-> None]
Success == [success |-> TRUE, message |-> "ok", error |-> None]

\* The tool returns result.
Return(z, result) == [z EXCEPT !.pc = "done", !.result = Some(result)]

\* A statement of the tool raised an exception: step is the statement.
\* The try around get_ticket_conversations prints it and the tool goes on
\* to the ticket data; everywhere else the tool's outer try turns it into
\* the failure result.
ExceptLetsWidgetBuildOut(z, step) ==
    LET f == [z EXCEPT !.failed = @ \cup {<<z.stage, step>>}]
    IN  IF z.stage = "conversations"
        THEN [f EXCEPT !.stage = "ticket", !.pc = "extract"]
        ELSE IF step = "build_ticket_widget"
             THEN [f EXCEPT !.pc = "done", !.raised = TRUE]
             ELSE Return(f, Failure(z.tool))

Except(z, step) ==
    LET f == [z EXCEPT !.failed = @ \cup {<<z.stage, step>>}]
    IN  IF z.stage = "conversations"
        THEN [f EXCEPT !.stage = "ticket", !.pc = "extract"]
        ELSE Return(f, Failure(z.tool))

\* What get_zoho_ticket does with the ticket it fetched.
AfterFetch(z, ticket) ==
    IF ~ticket.truthy
    THEN Return(z, NoTicketFound)
    ELSE IF ticket.conversations = 0 /\ ticket.id # None
         THEN [z EXCEPT !.ticket = Some(ticket), !.stage = "conversations",
                        !.pc = "token"]
         ELSE [z EXCEPT !.ticket = Some(ticket), !.stage = "ticket",
                        !.pc = "extract"]

\* ZohoDeskClient._request up to its request: get_access_token, which asks
\* the accounts server unless the auth object holds a truthy token, then
\* get_headers, which raises when the token is not truthy.
get_access_token_Unchecked(z, reply) ==
    IF z.access_token # None /\ z.access_token[1] # ""
    THEN [z EXCEPT !.pc = "send"]
    ELSE LET asked ==
               [z EXCEPT !.wire = Append(@, [to |-> "accounts",
                                             authorization |-> None,
                                             granted |-> reply])]
         IN  IF reply = None
             THEN [asked EXCEPT !.access_token = Some("none"), !.pc = "send"]
             ELSE IF reply[1] = ""
                  THEN Except([asked EXCEPT !.access_token = reply],
                              "get_headers")
                  ELSE [asked EXCEPT !.access_token = reply, !.pc = "send"]

get_access_token(z, reply) ==
    IF z.access_token # None /\ z.access_token[1] # ""
    THEN [z EXCEPT !.pc = "send"]
    ELSE LET asked ==
               [z EXCEPT !.wire = Append(@, [to |-> "accounts",
                                             authorization |-> None,
                                             granted |-> reply])]
         IN  IF reply = None
             THEN Except(asked, "get_access_token")
             ELSE IF reply[1] = ""
                  THEN Except([asked EXCEPT !.access_token = reply],
                              "get_headers")
                  ELSE [asked EXCEPT !.access_token = reply, !.pc = "send"]

\* The Authorization header get_headers builds.
get_headers(z) == Some(<<"Zoho-oauthtoken", z.access_token[1]>>)

\* The request of ZohoDeskClient._request and what the tool does with the
\* response.
_request(z, reply) ==
    LET sent == [z EXCEPT !.wire = Append(@, [to |-> "desk",
                                              authorization |-> get_headers(z),
                                              granted |-> None])]
    IN  IF reply = None
        THEN Except(sent, "request")
        ELSE IF z.tool # "get_zoho_ticket"
             THEN Return(sent, Success)
             ELSE IF z.stage = "conversations"
                  THEN [sent EXCEPT
                          !.ticket = Some([@[1] EXCEPT
                               !.conversations = reply[1].conversations]),
                          !.stage = "ticket", !.pc = "extract"]
                  ELSE AfterFetch(sent, reply[1])

\* ZohoDeskClient._request_url, which search_tickets_by_account calls: the
\* request carries its key in the URL and no header.
_request_url(z, reply) ==
    LET sent == [z EXCEPT !.wire = Append(@, [to |-> "crm",
                                              authorization |-> None,
                                              granted |-> None])]
    IN  IF reply = None
        THEN Except(sent, "request_url")
        ELSE AfterFetch(sent, reply[1])

\* The tool is called; filtered says whether get_zoho_ticket was given a
\* contact name, an email or a ticket number.
ToolCall(tool, filtered) ==
    /\ zoho.pc \in {"idle", "done"}
    /\ filtered => tool = "get_zoho_ticket"
    /\ zoho' = [pc |-> "stream", tool |-> tool, filtered |-> filtered,
                stage |-> "first", access_token |-> None, wire |-> <<>>,
                ticket |-> None, failed |-> {}, result |-> None,
                raised |-> FALSE]

\* await ctx.context.stream(ProgressUpdateEvent(...))
Progress(ok) ==
    /\ zoho.pc = "stream"
    /\ zoho' = IF ok THEN [zoho EXCEPT !.pc = "auth"]
               ELSE Except(zoho, "stream")

\* auth = ZohoAuth(); client = ZohoDeskClient(auth), and the client method
\* the tool calls: get_latest_ticket searches when it is given a filter.
NewAuth(ok) ==
    /\ zoho.pc = "auth"
    /\ zoho' = IF ~ok THEN Except(zoho, "ZohoAuth")
               ELSE IF zoho.filtered THEN [zoho EXCEPT !.pc = "search"]
               ELSE [zoho EXCEPT !.pc = "token"]

GetAccessToken(reply) ==
    /\ zoho.pc = "token"
    /\ zoho' = get_access_token(zoho, reply)

SendRequest(reply) ==
    /\ zoho.pc = "send"
    /\ zoho' = _request(zoho, reply)

SearchRequest(reply) ==
    /\ zoho.pc = "search"
    /\ zoho' = _request_url(zoho, reply)

\* extract_ticket_data: the snippet agent runs when the ticket has
\* conversations, and its failure is replaced by a snippet of the content.
ExtractTicketData(ok) ==
    /\ zoho.pc = "extract"
    /\ ok \/ zoho.ticket[1].conversations > 0
    /\ zoho' = [zoho EXCEPT
                  !.pc = "widget",
                  !.failed = IF ok THEN @ ELSE @ \cup {<<"ticket", "snippet">>}]

\* build_ticket_widget and model_dump; a failure is raised again as a
\* ValueError inside the outer try.
BuildWidget(ok) ==
    /\ zoho.pc = "widget"
    /\ zoho' = IF ok THEN [zoho EXCEPT !.pc = "stream_widget"]
               ELSE Except(zoho, "build_ticket_widget")

StreamWidget(ok) ==
    /\ zoho.pc = "stream_widget"
    /\ zoho' = IF ok THEN Return(zoho, Success)
               ELSE Except(zoho, "stream_widget")

StoreUntouched ==
    UNCHANGED <<heap, threads, items, obj, saved, client, last, thread_keys,
                attachments, tasks, turn>>

NextTools ==
    \/ \E tool \in Tools, filtered \in BOOLEAN :
            ToolCall(tool, filtered) /\ StoreUntouched
    \/ \E ok \in BOOLEAN : Progress(ok) /\ StoreUntouched
    \/ \E ok \in BOOLEAN : NewAuth(ok) /\ StoreUntouched
    \/ \E reply \in TokenReplies : GetAccessToken(reply) /\ StoreUntouched
    \/ \E reply \in ApiReplies : SendRequest(reply) /\ StoreUntouched
    \/ \E reply \in ApiReplies : SearchRequest(reply) /\ StoreUntouched
    \/ \E ok \in BOOLEAN : ExtractTicketData(ok) /\ StoreUntouched
    \/ \E ok \in BOOLEAN : BuildWidget(ok) /\ StoreUntouched
    \/ \E ok \in BOOLEAN : StreamWidget(ok) /\ StoreUntouched

SpecTools == Init /\ [][NextTools]_vars

\* ------------------------------------------------------------ properties
Ordered(s, order) == IF order = "asc" THEN s ELSE Reverse(s)
IsPrefix(p, s) == Len(p) <= Len(s) /\ p = SubSeq(s, 1, Len(p))
HasId(s, id) == \E i \in 1 .. Len(s) : s[i].id = id
DistinctNonEmptyIds(s) ==
    /\ \A i \in 1 .. Len(s) : s[i].id # ""
    /\ \A i, j \in 1 .. Len(s) : i # j => s[i].id # s[j].id

Reading == client.phase \in {"paging", "done", "failed"}

\* What a read-back of the client's thread must look like at every call:
\* no failure, the accumulated pages are a prefix of the appended items in
\* the requested order, all of them once has_more was false, and no more
\* calls are made than there are items (one call for an empty thread).
ReadBackExact ==
    LET full == Ordered(Sent(client.thread_id), client.order)
    IN  /\ client.phase # "failed"
        /\ IsPrefix(client.acc, full)
        /\ client.phase = "done" => client.acc = full
        /\ client.calls <= Max(1, Len(full))

\* C1 as stated: for every sequence of appended items, every limit >= 1
\* and either order, following the returned cursors from after=None yields
\* the full ordered sequence, nothing twice and nothing missing, and ends
\* with has_more false after finitely many calls.
C1_RoundTripAnyItems == Reading /\ client.limit >= 1 => ReadBackExact

\* C1 amended: the same round trip for every sequence of appended items
\* whose ids are non-empty and pairwise distinct.
C1_RoundTripDistinctIds ==
    Reading /\ client.limit >= 1
        /\ DistinctNonEmptyIds(Sent(client.thread_id))
    => ReadBackExact

C1_Witness ==
    /\ client.phase = "done"
    /\ client.limit = 2
    /\ client.order = "desc"
    /\ client.calls = 2
    /\ Len(client.acc) = 3
    /\ DistinctNonEmptyIds(Sent(client.thread_id))

\* The position in the ordered sequence right after which the page of the
\* last load_thread_items call starts, and the last position it covers.
LastOrdered == Ordered(items[last.thread_id], last.order)
LastFrom ==
    IF Truthy(last.after)
    THEN CHOOSE i \in 1 .. Len(LastOrdered) :
            /\ LastOrdered[i].id = last.after[1]
            /\ \A j \in 1 .. (i - 1) : LastOrdered[j].id # last.after[1]
    ELSE 0
LastCovered == LastFrom + Len(last.page.data)
LoadedPage == last.op = "load_thread_items" /\ last.page.status = "ok"
HasMoreIffItemsRemain ==
    last.page.has_more <=> \E i \in 1 .. Len(LastOrdered) : i > LastCovered

\* C2 as stated: has_more is true iff an item lies after the last position
\* the page covers; the cursor is the id of the page's last item when
\* has_more is true and None when it is false.
C2_CursorWheneverHasMore ==
    LoadedPage =>
        /\ HasMoreIffItemsRemain
        /\ last.page.has_more =>
              /\ last.page.data # <<>>
              /\ last.page.after
                    = Some(last.page.data[Len(last.page.data)].id)
        /\ ~last.page.has_more => last.page.after = None

\* C2 amended: has_more is true iff an item lies after the last position
\* the page covers; the cursor is the id of the page's last item when
\* has_more is true and the page is not empty, and None otherwise.
C2_CursorOfNonEmptyPage ==
    LoadedPage =>
        /\ HasMoreIffItemsRemain
        /\ IF last.page.has_more /\ last.page.data # <<>>
           THEN last.page.after = Some(last.page.data[Len(last.page.data)].id)
           ELSE last.page.after = None

C2_Witness ==
    /\ LoadedPage
    /\ last.page.has_more
    /\ Truthy(last.after)
    /\ last.limit = 1
    /\ last.page.after = Some(last.page.data[1].id)
    /\ Len(LastOrdered) = 3

\* C3: load_thread_items on an existing thread with a non-empty `after`
\* that is the id of none of its items raises NotFound, whatever the limit
\* and order and also when the thread has no items; it returns no page.
C3_UnknownCursorNotFound ==
    last.op = "load_thread_items"
        /\ last.thread_id \in DOMAIN items
        /\ Truthy(last.after)
        /\ ~HasId(items[last.thread_id], last.after[1])
    => last.page.status = "NotFound"

C3_Witness ==
    /\ last.op = "load_thread_items"
    /\ last.thread_id \in DOMAIN items
    /\ Truthy(last.after)
    /\ items[last.thread_id] # <<>>
    /\ ~HasId(items[last.thread_id], last.after[1])
    /\ last.page.status = "NotFound"

\* C4: after N items were appended to a saved thread and nothing else was
\* done to its items, load_thread_items(after=None, limit=0) returns in one
\* page, has_more false, exactly those N items: in append order for "asc",
\* in the reverse of append order otherwise.
C4_FullReadInAppendOrder ==
    Reading /\ client.limit = 0 /\ client.calls >= 1
    => /\ client.phase = "done"
       /\ client.calls = 1
       /\ ~last.page.has_more
       /\ client.order = "asc" => client.acc = Sent(client.thread_id)
       /\ client.order = "desc"
             => client.acc = Reverse(Sent(client.thread_id))

C4_Witness ==
    /\ client.phase = "done"
    /\ client.limit = 0
    /\ client.order = "desc"
    /\ Len(Sent(client.thread_id)) = 3
    /\ client.acc[1] # client.acc[3]
    /\ client.acc[1] = Sent(client.thread_id)[3]

\* The value the store holds for each stored thread id.
Stored == [t \in DOMAIN threads |-> heap[threads[t]]]

\* C5: load_thread returns a value equal to what save_thread was given at
\* the time of the save, and the stored record is that value whatever the
\* caller later does to the object it passed or to an object it got back.
C5_CopyInCopyOut ==
    /\ \A t \in DOMAIN threads : t \in DOMAIN saved /\ Stored[t] = saved[t]
    /\ last.op = "load_thread" /\ last.status = "ok"
          => /\ last.thread_id \in DOMAIN saved
             /\ last.thread = Some(saved[last.thread_id])

C5_Witness ==
    /\ last.op = "mutate"
    /\ last.previous \in {"save_thread", "load_thread"}
    /\ obj # Null
    /\ heap[obj].id \in DOMAIN threads
    /\ heap[obj] # Stored[heap[obj].id]

\* C6: load_thread raises NotFound exactly when no thread with that id is
\* stored, and succeeds exactly when one is.
C6_LoadThreadNotFoundIffAbsent ==
    last.op = "load_thread"
    => (last.status = "NotFound" <=> last.thread_id \notin DOMAIN threads)

C6_Witness ==
    /\ last.op = "load_thread"
    /\ last.status = "NotFound"
    /\ threads # <<>>

\* An add_thread_item step: NotFound and nothing stored when the thread has
\* no record, else the item goes to the end of the thread's sequence and
\* nothing else moves.
C7_AppendStep ==
    last'.op = "add_thread_item" =>
        LET t == last'.thread_id
        IN  IF t \notin DOMAIN threads
            THEN /\ last'.status = "NotFound"
                 /\ items' = items
                 /\ Stored' = Stored
            ELSE /\ last'.status = "ok"
                 /\ t \in DOMAIN items
                 /\ items' = [items EXCEPT ![t] = Append(@, last'.item)]
                 /\ Stored' = Stored
C7_ItemsImplyThread ==
    \A t \in DOMAIN items : items[t] # <<>> => t \in DOMAIN threads

\* C7: add_thread_item raises NotFound and stores nothing when the thread
\* has no record, otherwise appends the item after every item present,
\* leaving those as they were; so every thread id with a stored item has a
\* stored thread record.
C7_AppendNeedsThread == [][C7_AppendStep]_vars /\ []C7_ItemsImplyThread

C7_Witness ==
    /\ last.op = "add_thread_item"
    /\ last.status = "ok"
    /\ Len(items[last.thread_id]) = 3
    /\ items[last.thread_id][3] = last.item
    /\ items[last.thread_id][1].id = last.item.id

\* C8: save_item on an existing thread replaces the first item whose id is
\* item.id, in place, the length and every other item unchanged; when no
\* item has that id it raises NotFound and the sequence is unchanged.
C8_SaveItemReplacesFirst ==
    [][ last'.op = "save_item" /\ last'.thread_id \in DOMAIN items =>
          LET t == last'.thread_id
              it == last'.item
              old == items[t]
          IN  IF HasId(old, it.id)
              THEN /\ last'.status = "ok"
                   /\ \E i \in 1 .. Len(old) :
                        /\ old[i].id = it.id
                        /\ \A j \in 1 .. (i - 1) : old[j].id # it.id
                        /\ items' = [items EXCEPT ![t] =
                                        [old EXCEPT ![i] = it]]
              ELSE /\ last'.status = "NotFound"
                   /\ items' = items ]_vars

C8_Witness ==
    /\ last.op = "save_item"
    /\ last.status = "ok"
    /\ LET s == items[last.thread_id]
       IN  /\ Len(s) = 3
           /\ s[1].id # last.item.id
           /\ s[2] = last.item
           /\ s[3].id = last.item.id
           /\ s[3] # last.item

\* C9: delete_thread_item on an existing thread removes exactly the first
\* item whose id is item_id, the others staying in their order, also when
\* several items have that id; when none has, it raises NotFound and
\* removes nothing.
C9_DeleteItemRemovesFirst ==
    [][ last'.op = "delete_thread_item" /\ last'.thread_id \in DOMAIN items =>
          LET t == last'.thread_id
              id == last'.item_id
              old == items[t]
          IN  IF HasId(old, id)
              THEN /\ last'.status = "ok"
                   /\ \E i \in 1 .. Len(old) :
                        /\ old[i].id = id
                        /\ \A j \in 1 .. (i - 1) : old[j].id # id
                        /\ items' = [items EXCEPT ![t] =
                                        SubSeq(old, 1, i - 1)
                                            \o SubSeq(old, i + 1, Len(old))]
              ELSE /\ last'.status = "NotFound"
                   /\ items' = items ]_vars

C9_Witness ==
    /\ last.op = "delete_thread_item"
    /\ last.status = "ok"
    /\ LET s == items[last.thread_id]
       IN  /\ Len(s) = 2
           /\ s[1].id # last.item_id
           /\ s[2].id = last.item_id

\* A delete_thread step: NotFound and nothing removed when the thread is
\* not stored, else the record and the item sequence both go in that step
\* and no other thread is touched.
C10_DeleteStep ==
    last'.op = "delete_thread" =>
        LET t == last'.thread_id
        IN  IF t \notin DOMAIN threads
            THEN /\ last'.status = "NotFound"
                 /\ Stored' = Stored
                 /\ items' = items
            ELSE /\ last'.status = "ok"
                 /\ Stored' = Restrict(Stored, DOMAIN threads \ {t})
                 /\ items' = Restrict(items, DOMAIN items \ {t})
                 /\ t \notin DOMAIN items'
\* A save_thread of an id that is not stored starts with no items.
C10_SaveStartsEmpty ==
    last'.op = "save_thread" /\ last'.thread_id \notin DOMAIN threads
    => /\ last'.thread_id \in DOMAIN items'
       /\ items'[last'.thread_id] = <<>>
\* Every read of an id that is not stored raises NotFound.
C10_GoneIsNotFound ==
    \A t \in ThreadIds \ DOMAIN threads :
        /\ load_thread(St, t).status = "NotFound"
        /\ \A c \in Cursors, n \in Limits, o \in Orders :
              load_thread_items(St, t, c, n, o).status = "NotFound"

\* C10: delete_thread raises NotFound when the thread is not stored; when
\* it is, the record and the whole item sequence go in one step, after
\* which load_thread and load_thread_items of that id raise NotFound and a
\* later save_thread of the id starts with an empty item sequence.
C10_DeleteThreadRemovesAll ==
    [][C10_DeleteStep /\ C10_SaveStartsEmpty]_vars /\ []C10_GoneIsNotFound

C10_Witness ==
    /\ last.op = "delete_thread"
    /\ last.status = "ok"
    /\ last.removed = 2
    /\ last.thread_id \notin DOMAIN threads
    /\ last.thread_id \notin DOMAIN items
    /\ threads # <<>>

\* C11: save_thread never fails with NotFound.  For an id that is not
\* stored it creates the record together with an empty item sequence; for
\* a stored id it overwrites the record and leaves the thread's item
\* sequence as it was.  Every other thread, its items and the attachments
\* are left alone.
C11_SaveStep ==
    last'.op = "save_thread" =>
        LET t == last'.thread_id
        IN  /\ last'.status = "ok"
            /\ DOMAIN threads' = DOMAIN threads \cup {t}
            /\ DOMAIN items' = DOMAIN threads'
            /\ heap'[threads'[t]] = last'.thread
            /\ items'[t] = IF t \in DOMAIN threads THEN items[t] ELSE <<>>
            /\ \A u \in DOMAIN threads \ {t} :
                    /\ heap'[threads'[u]] = heap[threads[u]]
                    /\ items'[u] = items[u]
            /\ attachments' = attachments
C11_SaveThreadUpserts == [][C11_SaveStep]_vars

\* A thread holding items was saved again, with a title it did not have
\* when the items were appended.
C11_Witness ==
    /\ last.op = "save_thread"
    /\ last.thread.title = Some("T")
    /\ Len(items[last.thread_id]) = 2
    /\ \E u \in DOMAIN threads \ {last.thread_id} :
            heap[threads[u]].title = None /\ items[u] # <<>>
\* The full ordering of the stored threads: what load_threads returns with
\* no cursor and no limit.
FullListing(order) == load_threads(St, 0, None, order).data
SortedByCreation(s, order) ==
    \A i, j \in 1 .. Len(s) :
        i < j => IF order = "asc" THEN s[i].created_at <= s[j].created_at
                 ELSE s[i].created_at >= s[j].created_at
ListsEachStoredOnce(s) ==
    /\ Len(s) = Cardinality(DOMAIN threads)
    /\ \A t \in DOMAIN threads :
            \E i \in 1 .. Len(s) : s[i] = heap[threads[t]] /\ s[i].id = t

\* C12: the full ordering load_threads pages over holds every stored
\* thread exactly once and is sorted by creation time, non-increasing
\* unless order is "asc", then non-decreasing.  A page is what the cursor
\* rules of load_thread_items give on that ordering: a non-empty `after`
\* matching no stored thread id fails with NotFound, otherwise the page
\* starts right after the thread whose id equals `after`, and has_more and
\* the returned cursor are those load_thread_items computes.
C12_LoadThreadsSortedPages ==
    last.op = "load_threads" =>
        LET full == FullListing(last.order)
            page == last.page
            at == IF Truthy(last.after)
                  THEN FirstIndex(full, last.after[1]) ELSE 0
        IN  /\ ListsEachStoredOnce(full)
            /\ SortedByCreation(full, last.order)
            /\ page.status = "NotFound" <=>
                    Truthy(last.after) /\ last.after[1] \notin DOMAIN threads
            /\ page = PageOf(full, last.after, last.limit, "asc")
            /\ page.status = "ok" =>
                    page.data = SubSeq(full, at + 1, at + Len(page.data))

\* A page of one thread taken after a cursor from three stored threads of
\* which two have the same creation time, newest first, more to come.
C12_Witness ==
    /\ last.op = "load_threads"
    /\ last.order = "desc"
    /\ last.limit = 1
    /\ Truthy(last.after)
    /\ last.page.status = "ok"
    /\ last.page.has_more
    /\ Cardinality(DOMAIN threads) = 3
    /\ \E t, u \in DOMAIN threads :
            /\ t # u
            /\ heap[threads[t]].created_at = heap[threads[u]].created_at
    /\ \E t, u \in DOMAIN threads :
            heap[threads[t]].created_at < heap[threads[u]].created_at
    /\ heap[threads[last.after[1]]].created_at
            > last.page.data[1].created_at
\* C13: for a thread id that is not stored, load_thread_items with every
\* after, limit and order, and save_item, load_item and delete_thread_item
\* with every item, each fail with NotFound; so did the last such call
\* made on a thread that is not stored.
C13_UnknownThreadNotFound ==
    /\ \A t \in ThreadIds \ DOMAIN threads :
          /\ \A c \in Cursors, n \in Limits, o \in Orders :
                load_thread_items(St, t, c, n, o).status = "NotFound"
          /\ \A it \in Items : save_item(St, t, it).status = "NotFound"
          /\ \A i \in ItemIds :
                /\ load_item(St, t, i).status = "NotFound"
                /\ delete_thread_item(St, t, i).status = "NotFound"
    /\ last.op \in {"save_item", "load_item", "delete_thread_item"}
            /\ last.thread_id \notin DOMAIN threads
        => last.status = "NotFound"

\* load_item was refused on a thread that is not stored, for an item id
\* that an item of the stored thread has.
C13_Witness ==
    /\ last.op = "load_item"
    /\ last.status = "NotFound"
    /\ last.thread_id \notin DOMAIN threads
    /\ \E t \in DOMAIN items : HasId(items[t], last.item_id)
\* A load_item step on a stored thread: the store is as before, and the
\* call returned the first item in append order with the id, or failed
\* with NotFound when the thread has no item with the id.
C17_LoadStep ==
    last'.op = "load_item" /\ last'.thread_id \in DOMAIN threads =>
        LET collection == items[last'.thread_id]
            idx == FirstIndex(collection, last'.item_id)
        IN  /\ UNCHANGED <<heap, threads, items, thread_keys, attachments>>
            /\ IF HasId(collection, last'.item_id)
               THEN /\ last'.status = "ok"
                    /\ last'.item = Some(collection[idx])
               ELSE /\ last'.status = "NotFound"
                    /\ last'.item = None
\* Right after a successful save_item, load_item of the same id gives the
\* item that was saved; right after a successful delete_thread_item that
\* left no item with the id, it fails with NotFound.
C17_ReflectsLastWrite ==
    /\ last.op = "save_item" /\ last.status = "ok" =>
            load_item(St, last.thread_id, last.item.id).ret = Some(last.item)
    /\ last.op = "delete_thread_item" /\ last.status = "ok"
            /\ ~HasId(items[last.thread_id], last.item_id)
        => load_item(St, last.thread_id, last.item_id).status = "NotFound"

\* C17: load_item on a stored thread returns a copy of the first item in
\* append order whose id equals item_id, with the value the latest
\* save_item gave it, and changes nothing in the store; it fails with
\* NotFound when no item of the thread has the id.
C17_LoadItemFirstMatch == [][C17_LoadStep]_vars /\ []C17_ReflectsLastWrite

\* load_item returned the first of two items with the same id and
\* different payloads.
C17_Witness ==
    /\ last.op = "load_item"
    /\ last.status = "ok"
    /\ LET collection == items[last.thread_id]
       IN  \E i, j \in 1 .. Len(collection) :
              /\ i < j
              /\ collection[i].id = last.item_id
              /\ collection[j].id = last.item_id
              /\ collection[i] # collection[j]
              /\ last.item = Some(collection[i])
\* The ordered sequence the last paged read went over, and the index its
\* page starts at (the elements before it are skipped).
PagedSequence ==
    IF last.op = "load_threads"
    THEN ListSort(ThreadValues(St), last.order # "asc")
    ELSE Ordered(items[last.thread_id], last.order)
PageStart ==
    IF Truthy(last.after) THEN FirstIndex(PagedSequence, last.after[1]) ELSE 0

\* C14: for load_thread_items and load_threads alike, a limit of 0 gives
\* every element from the start index to the end of the ordered sequence
\* and has_more false; a positive limit gives exactly min(limit, number of
\* elements from the start index on) elements, contiguous and in order
\* from the start index.
C14_PageSize ==
    last.op \in {"load_thread_items", "load_threads"}
        /\ last.page.status = "ok"
    => LET page == last.page
           remaining == Len(PagedSequence) - PageStart
       IN  /\ last.limit = 0 =>
                /\ page.data = SubSeq(PagedSequence, PageStart + 1,
                                      Len(PagedSequence))
                /\ ~page.has_more
           /\ last.limit > 0 =>
                /\ Len(page.data) = Min(last.limit, remaining)
                /\ page.data = SubSeq(PagedSequence, PageStart + 1,
                                      PageStart + Len(page.data))

\* A thread listing with limit 0 after a cursor returned the one thread
\* that remained, while the other thread holds three items.
C14_Witness ==
    /\ last.op = "load_threads"
    /\ last.limit = 0
    /\ Truthy(last.after)
    /\ last.page.status = "ok"
    /\ Len(last.page.data) = 1
    /\ PagedThread \in DOMAIN items
    /\ Len(items[PagedThread]) = 3
AttachmentOps == {"save_attachment", "load_attachment", "delete_attachment"}
ThreadAndItemOps ==
    {"save_thread", "load_thread", "delete_thread", "load_threads",
     "add_thread_item", "save_item", "load_item", "delete_thread_item",
     "load_thread_items"}

\* An attachment saved and not deleted since is what load_attachment
\* returns; an id that is not stored makes load_attachment and
\* delete_attachment fail with NotFound.
C16_ReadsWhatWasSaved ==
    \A f \in AttachmentIds :
        IF f \in DOMAIN saved
        THEN /\ load_attachment(St, f).status = "ok"
             /\ load_attachment(St, f).ret = Some(saved[f])
             /\ delete_attachment(St, f).status = "ok"
        ELSE /\ f \notin DOMAIN attachments
             /\ load_attachment(St, f).status = "NotFound"
             /\ delete_attachment(St, f).status = "NotFound"
\* What the last attachment call returned.
C16_LastCall ==
    /\ last.op = "save_attachment" =>
            /\ last.status = "ok"
            /\ attachments[last.attachment.id] = last.attachment
    /\ last.op = "load_attachment" =>
            IF last.attachment_id \in DOMAIN attachments
            THEN /\ last.status = "ok"
                 /\ last.attachment = Some(saved[last.attachment_id])
            ELSE last.status = "NotFound"
    /\ last.op = "delete_attachment" =>
            /\ last.attachment_id \notin DOMAIN attachments
            /\ last.again => last.status = "NotFound"
\* Thread and item operations leave the attachments alone; attachment
\* operations leave threads and items alone, and every attachment other
\* than the one they name.
C16_Independent ==
    /\ last'.op \in ThreadAndItemOps => attachments' = attachments
    /\ last'.op \in AttachmentOps =>
            /\ UNCHANGED <<heap, threads, items, thread_keys>>
            /\ LET f == IF last'.op = "save_attachment"
                         THEN last'.attachment.id ELSE last'.attachment_id
               IN  \A g \in AttachmentIds \ {f} :
                      /\ g \in DOMAIN attachments' <=> g \in DOMAIN attachments
                      /\ g \in DOMAIN attachments =>
                            attachments'[g] = attachments[g]
            /\ last'.op = "load_attachment" => attachments' = attachments

\* C16: after save_attachment(A), load_attachment(A.id) returns a copy
\* equal to the A saved last under that id, until delete_attachment(A.id)
\* succeeds; load_attachment and delete_attachment fail with NotFound for
\* an id that is not stored, a second delete of the same id included; no
\* thread or item operation changes the attachments and no attachment
\* operation changes threads or items.
C16_AttachmentContract ==
    [][C16_Independent]_vars /\ [](C16_ReadsWhatWasSaved /\ C16_LastCall)

\* A second delete of the same attachment id was refused, while another
\* attachment and a thread with items are stored.
C16_Witness ==
    /\ last.op = "delete_attachment"
    /\ last.again
    /\ last.status = "NotFound"
    /\ attachments # <<>>
    /\ AttachedThread \in DOMAIN items
    /\ items[AttachedThread] # <<>>
InCritical == {c \in Callers : PcOf(tasks, c).at = "critical"}

\* At most one call is inside its critical section, and it holds the lock.
C15_MutualExclusion ==
    /\ Cardinality(InCritical) <= 1
    /\ \A c \in InCritical : tasks.lock = Some(c)
\* The collections change only in the step in which the call holding the
\* lock returns, and that step leaves the store, and gives the caller,
\* what the handler gives when run on the store as it stands at that step.
C15_ReturnIsAtomic ==
    /\ \A c \in Callers :
          PcOf(tasks, c).at = "critical" /\ PcOf(tasks', c).at = "idle" =>
              LET r == Run(St, tasks.pc[c].call)
              IN  /\ tasks.lock = Some(c)
                  /\ Commit(r, obj)
                  /\ last'.ret = r.ret
    /\ <<heap, threads, items, thread_keys, attachments>>'
            # <<heap, threads, items, thread_keys, attachments>>
        => \E c \in Callers :
              PcOf(tasks, c).at = "critical" /\ PcOf(tasks', c).at = "idle"

\* C15: with callers running concurrently at most one store operation is
\* inside its critical section at any time, every operation reads and
\* writes the collections inside that one section, and so every execution
\* gives the results and the store of the operations run one at a time in
\* the order in which they return.
C15_AtomicUnderLock == []C15_MutualExclusion /\ [][C15_ReturnIsAtomic]_vars

\* One caller appended an item and returned while the other waits at the
\* lock to append to the same thread.
C15_Witness ==
    /\ last.op = "return"
    /\ last.call.op = "add_thread_item"
    /\ last.ret.status = "ok"
    /\ Len(items[LockedThread]) = 2
    /\ \E c \in Callers \ {last.caller} :
            /\ PcOf(tasks, c).at = "waiting"
            /\ tasks.pc[c].call.op = "add_thread_item"
InTurn == turn.phase # "none"
\* The thread's record in the store, and the thread object respond holds.
TurnStored == heap[threads[TurnThread]]
TurnObject == heap[obj]

\* C18: a turn whose item is None, a client tool call or any other item
\* that is not a user message returns at once: no event is emitted, no
\* title task is started, the text-generation collaborator is not called,
\* and neither the thread object nor the store is written.
C18_NonMessageTurnIsNoOp ==
    InTurn /\ turn.item.kind # "user_message" =>
        /\ turn.phase \in {"called", "done"}
        /\ turn.events = 0
        /\ turn.title_task = "absent"
        /\ turn.title_calls = 0
        /\ turn.generation = 0
        /\ TurnObject = turn.thread0
        /\ DOMAIN threads = {TurnThread}
        /\ TurnStored = turn.thread0
        /\ items[TurnThread] = <<>>
        /\ attachments = <<>>

\* A turn with a client tool call on a thread without a title is over.
C18_Witness ==
    /\ turn.phase = "done"
    /\ turn.item.kind = "client_tool_call"
    /\ turn.thread0.title = None
    /\ turn.thread0.previous_response_id = Some("r0")

\* In a turn the title collaborator is called only for a thread without a
\* title, and the title is written, to the thread object and to the store,
\* only by the title task after that call returned; for a thread with a
\* title there is no call and no write.
C19_TitleOnlyWhenMissing ==
    InTurn =>
        /\ turn.title_calls > 0 => turn.thread0.title = None
        /\ turn.title_calls <= 1
        /\ TurnObject.title # turn.thread0.title
                \/ TurnStored.title # turn.thread0.title
            => /\ turn.thread0.title = None
               /\ turn.title_task = "saved"
               /\ turn.title_calls = 1
        /\ turn.thread0.title # None =>
               /\ turn.title_calls = 0
               /\ turn.title_task \in {"absent", "created", "returned"}
               /\ TurnObject.title = turn.thread0.title
               /\ TurnStored.title = turn.thread0.title
\* A response stream that was started ends, whatever the title task does.
C19_StreamCompletes == (InTurn /\ turn.phase = "streaming") ~> turn.phase = "done"

\* C19: the title collaborator is called, and its result saved to the
\* thread, only if the thread has no title; a turn on a thread with a
\* title neither calls it nor writes the title; the title runs as a task
\* of its own, so the response stream is produced and completes even if
\* the title call fails or never returns.
C19_TitleGeneration == []C19_TitleOnlyWhenMissing /\ C19_StreamCompletes

\* The response stream has yielded its events and ended while the title
\* call, made for a thread without a title, has not returned.
C19_Witness ==
    /\ turn.phase = "done"
    /\ turn.generation = 1
    /\ turn.events = MaxEvents
    /\ turn.thread0.title = None
    /\ turn.title_task = "calling"
    /\ TurnObject.previous_response_id = Some(LastResponseId)

\* No content part has a text with a character other than white space.
NoExtractableText(item) ==
    \A i \in 1 .. Len(item.content) :
        \/ item.content[i] = None
        \/ \A k \in 1 .. Len(item.content[i][1]) : item.content[i][1][k] = " "

\* C20: a turn with a user message that has no extractable text returns
\* at once: the streaming text-generation collaborator is not invoked, no
\* event is emitted, and the thread's continuation token stays as it was.
C20_NoTextTurnReturns ==
    InTurn /\ turn.item.kind = "user_message"
        /\ NoExtractableText(turn.item)
    => /\ turn.phase \in {"called", "done"}
       /\ turn.generation = 0
       /\ turn.events = 0
       /\ TurnObject.previous_response_id
              = turn.thread0.previous_response_id
       /\ TurnStored.previous_response_id
              = turn.thread0.previous_response_id

\* A turn with a message of two parts, one without text and one of white
\* space, is over; the thread had a token, and the title task has saved.
C20_Witness ==
    /\ turn.phase = "done"
    /\ turn.item.kind = "user_message"
    /\ turn.item.content = <<None, Some(<<" ">>)>>
    /\ turn.thread0.previous_response_id = Some("r0")
    /\ turn.title_task = "saved"
\* What a turn with text has relayed and written so far.
C21_RelayedAndWritten ==
    InTurn =>
        /\ turn.relayed = turn.emitted
        /\ turn.events = Len(turn.relayed)
        /\ turn.phase \in {"called", "streaming"} =>
               TurnObject.previous_response_id
                   = turn.thread0.previous_response_id
        /\ turn.phase = "done" /\ turn.generation = 1 =>
               TurnObject.previous_response_id = Some(LastResponseId)
\* The step that writes the token ends the turn, and a turn that has ended
\* relays nothing more.
C21_TokenIsLast ==
    /\ InTurn /\ heap'[obj'].previous_response_id # TurnObject.previous_response_id
            /\ turn'.thread0 = turn.thread0 /\ turn'.phase # "called"
        => turn.phase = "streaming" /\ turn'.phase = "done"
    /\ InTurn /\ turn.phase = "done" /\ turn'.phase = "done"
        => turn'.relayed = turn.relayed

BothWritten ==
    /\ InTurn
    /\ turn.thread0.title = None
    /\ turn.phase = "done"
    /\ turn.generation = 1
    /\ turn.title_task = "saved"

\* C22 as stated: whichever of the title save and the metadata write came
\* first, once both are made the stored thread record holds the generated
\* title and the turn's new continuation token.
C22_StoredHoldsBoth ==
    BothWritten =>
        /\ TurnStored.title = Some("T")
        /\ TurnStored.previous_response_id = Some(LastResponseId)

\* C22 amended: once both are made, the thread object of the turn holds
\* the generated title and the new token, and the stored record holds the
\* title; the stored record holds the new token when the token was written
\* before the title save, and the token the thread had before the turn
\* when the title save came first.  Before the title save the stored
\* record is as it was.
C22_ObjectHoldsBoth ==
    /\ BothWritten =>
          /\ TurnObject.title = Some("T")
          /\ TurnObject.previous_response_id = Some(LastResponseId)
          /\ TurnStored.title = Some("T")
          /\ TurnStored.previous_response_id =
                 IF turn.title_after_token THEN Some(LastResponseId)
                 ELSE turn.thread0.previous_response_id
    /\ InTurn /\ turn.title_task # "saved" => TurnStored = turn.thread0

\* Both writes are made, the title save first: the stored record has the
\* title and the token of before the turn, the thread object the new one.
C22_Witness ==
    /\ BothWritten
    /\ ~turn.title_after_token
    /\ turn.thread0.previous_response_id = Some("r0")
    /\ TurnStored.previous_response_id = Some("r0")
    /\ TurnObject.previous_response_id = Some(LastResponseId)

\* ------------------------------------------------ the ticketing tools
ToolDone == zoho.pc = "done"
\* The failures the tool does not carry on from: all but those of the
\* conversations fetch and of the snippet agent.
Fatal == { f \in zoho.failed : f[1] # "conversations" /\ f[2] # "snippet" }

\* C23 as stated: a ticketing tool raises nothing, every failure of a
\* collaborator call in it (token refresh, API request, widget construction
\* or streaming) ends in the result success = false with a message and an
\* error text, and success = true is returned only when all of them
\* succeeded.
CollaboratorFailures ==
    { f \in zoho.failed :
        f[2] \in {"get_access_token", "request", "request_url",
                  "build_ticket_widget", "stream_widget"} }

C23_EveryFailureReported ==
    ToolDone =>
        /\ ~zoho.raised
        /\ zoho.result # None
        /\ CollaboratorFailures # {} => zoho.result[1] = Failure(zoho.tool)
        /\ zoho.result[1].success => CollaboratorFailures = {}

\* C23, amended: a ticketing tool raises nothing; every failure other than
\* one of the conversations fetch or of the snippet agent ends in the
\* result success = false with the tool's message and an error text; a
\* failure of the conversations fetch or of the snippet agent is passed
\* over; success = true is returned only when every other step succeeded,
\* and a failure result without an error text only when no ticket was found.
C23_FailureBoundary ==
    /\ zoho.pc # "idle" => ~zoho.raised
    /\ ToolDone =>
        /\ zoho.result # None
        /\ Fatal # {} => zoho.result[1] = Failure(zoho.tool)
        /\ zoho.result[1].success => Fatal = {}
        /\ Fatal = {} =>
             zoho.result[1] \in {Success, NoTicketFound}
        /\ zoho.result[1] = NoTicketFound => zoho.tool = "get_zoho_ticket"
    /\ zoho.pc \notin {"idle", "done"} => Fatal = {} /\ zoho.result = None

\* get_zoho_ticket passed over a failed conversations request and then
\* returned the failure of the widget's streaming.
C23_Witness ==
    /\ ToolDone
    /\ zoho.tool = "get_zoho_ticket"
    /\ zoho.failed = {<<"conversations", "request">>,
                      <<"ticket", "stream_widget">>}
    /\ zoho.result = Some(Failure("get_zoho_ticket"))
    /\ ~zoho.raised

Wire == IF zoho.pc = "idle" THEN <<>> ELSE zoho.wire
\* A token the accounts server granted that get_headers accepts.
Granted(m) == m.to = "accounts" /\ m.granted # None /\ m.granted[1] # ""
\* Message i was sent after a token was granted, with that token in its
\* Authorization header.
Authorized(i) ==
    \E j \in 1 .. i - 1 :
        /\ Granted(Wire[j])
        /\ Wire[i].authorization = Some(<<"Zoho-oauthtoken", Wire[j].granted[1]>>)
\* No ticketing request to one of the servers in to was sent after a token
\* request that failed.
NoneAfterRefusal(to) ==
    \A j \in 1 .. Len(Wire) :
        Wire[j].to = "accounts" /\ ~Granted(Wire[j]) =>
            \A i \in j + 1 .. Len(Wire) : Wire[i].to \notin to

\* C24 as stated: every ticketing request, of the filtered fetch too, is
\* sent after a token was obtained and with that token in its Authorization
\* header, and none is sent when obtaining the token failed.
C24_TokenBeforeEveryRequest ==
    /\ \A i \in 1 .. Len(Wire) :
          Wire[i].to \in {"desk", "crm"} => Authorized(i)
    /\ NoneAfterRefusal({"desk", "crm"})

\* C24, amended: every request of ZohoDeskClient._request (the unfiltered
\* fetch, the conversations, the draft reply, the note) is sent after a
\* non-empty token was granted to the client's ZohoAuth and with that token
\* in its Authorization header, the token is asked for at most once per
\* ZohoAuth, and after a token request that failed no such request is sent;
\* the filtered fetch sends its request first, with no token and no
\* Authorization header.
C24_TokenBeforeDeskRequest ==
    /\ \A i \in 1 .. Len(Wire) :
          /\ Wire[i].to = "desk" => Authorized(i)
          /\ Wire[i].to = "crm" =>
                i = 1 /\ zoho.filtered /\ Wire[i].authorization = None
    /\ NoneAfterRefusal({"desk"})
    /\ Cardinality({ j \in 1 .. Len(Wire) : Wire[j].to = "accounts" }) <= 1

\* The unfiltered fetch asked for a token and sent its request with it, and
\* the conversations request reused the token.
C24_Witness ==
    /\ Len(Wire) = 3
    /\ ~zoho.filtered
    /\ Wire[1].to = "accounts" /\ Wire[1].granted = Some("tok")
    /\ Wire[2].to = "desk" /\ Wire[3].to = "desk"
    /\ Wire[2].authorization = Some(<<"Zoho-oauthtoken", "tok">>)
    /\ Wire[3].authorization = Some(<<"Zoho-oauthtoken", "tok">>)

C27_AbandonedStaysPut ==
    InTurn /\ turn.phase = "abandoned" =>
        /\ TurnObject.previous_response_id = turn.thread0.previous_response_id
        /\ turn.produced = None
        /\ turn.relayed = turn.emitted

C27_NothingPulled ==
    turn.phase = "abandoned" /\ turn'.phase = "abandoned" =>
        /\ turn'.emitted = turn.emitted
        /\ turn'.relayed = turn.relayed
        /\ turn'.events = turn.events
        /\ turn'.generation = turn.generation
        /\ heap'[obj'].previous_response_id = heap[obj].previous_response_id

C27_CooperativeCancellation ==
    []C27_AbandonedStaysPut /\ [][C27_NothingPulled]_vars

\* A later turn of the thread was abandoned after its first event, and the
\* title task has saved the thread since: the token is still "r1".
C27_Witness ==
    /\ InTurn
    /\ turn.phase = "abandoned"
    /\ turn.emitted = <<"e2">>
    /\ turn.title_task = "saved"
    /\ turn.thread0.previous_response_id = Some("r1")
    /\ TurnObject.previous_response_id = Some("r1")
    /\ TurnStored.previous_response_id = Some("r1")

\* ------------------------------------- callers that wait for the network
At(c) == PcOf(tasks, c).at

\* The lock is held by exactly the caller inside a store block, and a
\* caller that holds it can leave the block at once, whatever the other
\* callers and the network do.
C26_LockOnlyInsideStore ==
    \A c \in Callers :
        /\ tasks.lock = Some(c) <=> At(c) = "critical"
        /\ At(c) = "network" => tasks.lock # Some(c)
        /\ At(c) = "critical" =>
              ENABLED (TaskLeave(c) /\ UNCHANGED <<client, turn, zoho>>)

C26_HolderReleases ==
    \A c \in Callers : At(c) = "critical" ~> tasks.lock # Some(c)

C26_WaiterAcquires ==
    \A c \in Callers : At(c) = "waiting" ~> At(c) = "critical"

\* C26: no caller is suspended on a network call while it holds the store
\* lock; a caller that has the lock releases it without waiting for
\* anything, and a caller waiting for the lock gets it.
C26_NoNetworkUnderLock ==
    /\ []C26_LockOnlyInsideStore
    /\ C26_HolderReleases
    /\ C26_WaiterAcquires

\* One caller is inside a store block while the other is suspended on a
\* network call, and again while the other waits for the lock.
C26_Witness ==
    /\ At("c1") = "critical"
    /\ tasks.lock = Some("c1")
    /\ At("c2") = "network"
    /\ last.op = "return"
    /\ last.caller = "c2"

\* ------------------------------------------- records and item sequences
\* The ids with a thread record are the ids with an item sequence.
C28_SameIds == DOMAIN threads = DOMAIN items

\* A delete_thread that returns NotFound has removed nothing.
C28_NotFoundRemovesNothing ==
    /\ last'.op = "return"
    /\ last'.call.op = "delete_thread"
    /\ last'.ret.status = "NotFound"
    => /\ threads' = threads
       /\ items' = items
       /\ last'.call.thread_id \notin DOMAIN threads \cup DOMAIN items

\* C28: under any interleaving of the callers, the ids with a thread record
\* are the ids with an item sequence, and a delete_thread that reports
\* NotFound has removed neither a record nor an item sequence.
C28_RecordsAndItemsAgree ==
    []C28_SameIds /\ [][C28_NotFoundRemovesNothing]_vars

\* Two callers deleted the same thread: the second got NotFound, while the
\* first is back at the lock to save the thread again.
C28_Witness ==
    /\ last.op = "return"
    /\ last.call.op = "delete_thread"
    /\ last.ret.status = "NotFound"
    /\ DOMAIN threads = {}
    /\ DOMAIN items = {}
    /\ \E c \in Callers \ {last.caller} :
            /\ PcOf(tasks, c).at = "waiting"
            /\ tasks.pc[c].call.op = "save_thread"

\* ------------------------------------------- callers whose calls may fail
\* The step in which caller c leaves the store.
Returns(c) == PcOf(tasks, c).at = "critical" /\ PcOf(tasks', c).at = "idle"

\* Every call returns or raises NotFound, and the step of a call that
\* raises NotFound leaves the thread records, the item sequences and the
\* attachments as they were and the lock free.
C29_FailureChangesNothing ==
    \A c \in Callers :
        Returns(c) =>
            /\ last'.ret.status \in {"ok", "NotFound"}
            /\ tasks'.lock = None
            /\ last'.ret.status = "NotFound" =>
                  /\ heap' = heap
                  /\ threads' = threads
                  /\ thread_keys' = thread_keys
                  /\ items' = items
                  /\ attachments' = attachments

\* With the lock free, a caller that waits for it can enter.
C29_WaiterProceeds ==
    \A c \in Callers :
        tasks.lock = None /\ PcOf(tasks, c).at = "waiting" =>
            ENABLED (TaskEnter(c) /\ UNCHANGED <<client, turn, zoho>>)

\* C29: a store operation completes or raises NotFound; one that raises
\* NotFound has changed nothing in the store, and it has released the lock,
\* so the operations after it proceed.
C29_FailureHasNoEffect ==
    []C29_WaiterProceeds /\ [][C29_FailureChangesNothing]_vars

\* save_item has just raised NotFound for an item that is not in the
\* thread, the store holds a thread, an item sequence and an attachment,
\* and the other caller waits at the free lock.
C29_Witness ==
    /\ last.op = "return"
    /\ last.call.op = "save_item"
    /\ last.ret.status = "NotFound"
    /\ LockedThread \in DOMAIN threads
    /\ items[LockedThread] = <<>>
    /\ DOMAIN attachments = {"f1"}
    /\ tasks.lock = None
    /\ \E c \in Callers \ {last.caller} : PcOf(tasks, c).at = "waiting"

\* ------------------------------------------------- two threads side by side
\* The stored record and the item sequence of a thread id, None for an id
\* that has none.
RecordOf(h, th, t) == IF t \in DOMAIN th THEN Some(h[th[t]]) ELSE None
ItemsOf(its, t) == IF t \in DOMAIN its THEN Some(its[t]) ELSE None
SameThread(t) ==
    /\ RecordOf(heap', threads', t) = RecordOf(heap, threads, t)
    /\ ItemsOf(items', t) = ItemsOf(items, t)

\* C30: add_thread_item, save_item, delete_thread_item, save_thread and
\* delete_thread on one thread id leave the record and the item sequence
\* of every other thread id as they were, and load_thread,
\* load_thread_items, load_item and load_threads leave every record, every
\* item sequence, the order of the threads and the attachments as they
\* were.
C30_Isolation ==
    /\ last'.op \in {"add_thread_item", "save_item", "delete_thread_item",
                     "save_thread", "delete_thread"}
          => \A t \in ThreadIds \ {last'.thread_id} : SameThread(t)
    /\ last'.op \in {"load_thread", "load_thread_items", "load_item",
                     "load_threads"}
          => /\ \A t \in ThreadIds : SameThread(t)
             /\ thread_keys' = thread_keys
             /\ attachments' = attachments

C30_ThreadIsolation == [][C30_Isolation]_vars

\* Item "a" was deleted from thread t1 while thread t2 keeps its own item
\* "a" and its title.
C30_Witness ==
    /\ last.op = "delete_thread_item"
    /\ last.thread_id = "t1"
    /\ last.item_id = "a"
    /\ last.status = "ok"
    /\ DOMAIN threads = {"t1", "t2"}
    /\ items["t1"] = <<>>
    /\ Len(items["t2"]) = 2
    /\ items["t2"][1].id = "a"
    /\ heap[threads["t2"]].title # None
    /\ heap[threads["t1"]].title = None
====
